---- MODULE Spec2Model ----
(***************************************************************************)
(* Client Info (GET_FIELD) operation of pvxs: src/src/clientintrospect.cpp *)
(* InfoOp (cancel / createOp / disconnected), Connection::handle_GET_FIELD *)
(* and GetBuilder::_exec_info, together with the Channel / Connection      *)
(* bookkeeping they rely on (pending list, opByIOID maps, ioid allocation, *)
(* peer close); and the value model of src/src/data.cpp: storage trees     *)
(* (StructTop / FieldStorage), the MValue and IValue handles into them,    *)
(* marking, assign / clone, freeze and thaw.                               *)
(*                                                                         *)
(* Every closure handed to tcp_loop.call() and every message handler runs  *)
(* on the single I/O executor, so each one is one atomic action.  exec()   *)
(* and cancel() block the calling thread until their closure has run, and  *)
(* a handle belongs to one user thread, so a call and its closure are one  *)
(* action too.                                                             *)
(***************************************************************************)
EXTENDS Integers, Sequences, FiniteSets, Bags, TLC

\* ---------------------------------------------------------------- bounds
MaxOps == 2        \* Info operations a run may exec()
MaxChans == 2      \* channels (PV names) of the context
MaxDisc == 1       \* peer closes in one run
MaxRx == 1         \* unhandled replies beyond which the peer adds no unasked one
MaxThreads == 2    \* user threads calling exec() and cancel()
MaxHandles == 3    \* value handles in existence at one time
MaxTrees == 2      \* storage trees in existence at one time
MaxVal == 1        \* scalars written are 0..MaxVal
MaxPath == 5       \* characters of the longest path handed to traverse()
MaxArrays == 3     \* shared_array objects in existence at one time
MaxLen == 2        \* elements of the longest array allocated

Ops == 1..MaxOps
Chans == 1..MaxChans
Threads == 1..MaxThreads

NoChan == 0        \* an empty shared_ptr<Channel> (after chan.reset())
NoIoid == -1       \* OperationBase::ioid before createOperations() sets it
NoSid == 0         \* Channel::sid while the channel is not Active

VARIABLES
    state,      \* InfoOp::state per operation ("None" before exec())
    chan,       \* InfoOp::chan: the channel, or NoChan
    done,       \* InfoOp::done holds a callback
    result,     \* InfoOp::result: "none", or what the handler stored there
    ioid,       \* OperationBase::ioid
    pc,         \* the user's handle: "idle" (no exec() yet), "held", "gone"
    chState,    \* Channel::state ("None" before Channel::build() makes it)
    sid,        \* Channel::sid
    pending,    \* Channel::pending, a list of weak operation handles
    chanOps,    \* Channel::opByIOID (the ioids registered for the channel)
    connOpen,   \* the Connection has a live bufferevent (bev)
    opByIOID,   \* Connection::opByIOID: ioid -> weak operation handle
    nextIOID,   \* Connection::nextIOID
    txLog,      \* commands enqueued on the current connection, in order
    peerPos,    \* how many of them the peer has read
    rx,         \* GET_FIELD replies received and not yet handled
    crashed,    \* "none", or the function in which undefined behaviour
                \* killed the process: "cancel", "handle_GET_FIELD"; or
                \* "callback": an exception of the user callback left
                \* handle_GET_FIELD
    calls,      \* times the user result callback was invoked, per operation
    delivered,  \* the Result the latest call of a callback was given,
                \* NoResult before the first
    cancelled,  \* a cancel() of the operation has returned
    everActive, \* the channel has been Active at some time
    nDisc,      \* connections lost so far
    lostBy,     \* why there is no connection: "none" (there is one, or
                \* there never was), "close" (the peer closed), "invalid"
                \* (an undecodable reply)
    userCall,   \* per user thread: the exec() or cancel() it is inside
    loopQ,      \* closures handed to tcp_loop.call() and not yet started
    loopBusy,   \* the thread whose closure the executor is running, or 0
    handles,    \* the MValue / IValue handles in existence (a bag)
    trees,      \* the StructTop storage trees
    raised,     \* what the latest operation on a value handle raised:
                \* "none", "runtime_error", or "fault" when undefined
                \* behaviour killed the process
    valueCall,  \* the call on a value that is in progress, with its
                \* arguments and local variables, or NoCall
    arrays,     \* the shared_array objects in existence
    monitor,    \* a server's subscription: its queue of updates, the
                \* limit and the flow control levels
    subscription \* the client's end of a subscription: the PV and the
                \* server it is on, the events queued and what pop() saw

opVars == <<state, chan, done, result, ioid>>
chanVars == <<chState, sid, pending, chanOps>>
connVars == <<connOpen, opByIOID, nextIOID, txLog, peerPos, rx>>
ghostVars == <<calls, delivered, cancelled, everActive, nDisc, lostBy>>
loopVars == <<userCall, loopQ, loopBusy>>
monVars == <<monitor, subscription>>
dataVars == <<handles, trees, raised, valueCall, arrays, monVars>>
\* what the actions of the Info operation leave alone
frameVars == <<loopVars, dataVars>>
clientVars == <<opVars, chanVars, connVars, pc, crashed, ghostVars>>
vars == <<clientVars, frameVars>>

\* ------------------------------------------------------------- helpers
Range(f) == {f[x] : x \in DOMAIN f}

\* the map m without key k (std::map::erase(key))
Erase(m, k) == [x \in DOMAIN m \ {k} |-> m[x]]

\* the map m with key k bound to v (std::map::emplace / operator[])
Insert(m, k, v) == [x \in DOMAIN m \cup {k} |-> IF x = k THEN v ELSE m[x]]

\* weak_ptr::lock() of a handle to operation o fails once ~InfoOp has run
Expired(o) == pc[o] = "gone"

GetFieldMsg(s, i) == [cmd |-> "GET_FIELD", sid |-> s, ioid |-> i, sub |-> ""]
DestroyMsg(s, i) == [cmd |-> "DESTROY_REQUEST", sid |-> s, ioid |-> i, sub |-> ""]

\* The mutable state the executor closures work on, as one record.
Cur ==
    [state |-> state, chan |-> chan, done |-> done, result |-> result,
     ioid |-> ioid, chState |-> chState, sid |-> sid, pending |-> pending,
     chanOps |-> chanOps, opByIOID |-> opByIOID, nextIOID |-> nextIOID,
     txLog |-> txLog, calls |-> calls, delivered |-> delivered]

Commit(st) ==
    /\ state' = st.state
    /\ chan' = st.chan
    /\ done' = st.done
    /\ result' = st.result
    /\ ioid' = st.ioid
    /\ chState' = st.chState
    /\ sid' = st.sid
    /\ pending' = st.pending
    /\ chanOps' = st.chanOps
    /\ opByIOID' = st.opByIOID
    /\ nextIOID' = st.nextIOID
    /\ txLog' = st.txLog
    /\ calls' = st.calls
    /\ delivered' = st.delivered

\* ------------------------------------------------------------- InfoOp
\* createOp() without "if(state!=Connecting) return": the request goes out
\* in every state (with whatever sid an empty chan yields)
createOpNoGuard(o, st) ==
    [st EXCEPT
        !.txLog = Append(@, GetFieldMsg(IF st.chan[o] = NoChan THEN NoSid
                                        ELSE st.sid[st.chan[o]], st.ioid[o])),
        !.state[o] = "Waiting"]

\* createOp() without "conn->enqueueTxBody(CMD_GET_FIELD)"
createOpSilent(o, st) ==
    IF st.state[o] # "Connecting"
    THEN st
    ELSE [st EXCEPT !.state[o] = "Waiting"]

\* InfoOp::createOp(): only a Connecting operation sends GET_FIELD
\* (sid, ioid, empty sub-field name) and becomes Waiting.
createOp(o, st) ==
    IF st.state[o] # "Connecting"
    THEN st
    ELSE [st EXCEPT
            !.txLog = Append(@, GetFieldMsg(st.sid[st.chan[o]], st.ioid[o])),
            !.state[o] = "Waiting"]

\* disconnected() without "if(state==Waiting)"
disconnectedAlways(o, st) ==
    IF st.chan[o] = NoChan
    THEN [st EXCEPT !.state[o] = "Connecting"]
    ELSE [st EXCEPT
            !.pending[st.chan[o]] = Append(@, o),
            !.state[o] = "Connecting"]

\* InfoOp::disconnected(self): a Waiting operation returns to pending.
disconnected(o, st) ==
    IF st.state[o] = "Waiting"
    THEN [st EXCEPT
            !.pending[st.chan[o]] = Append(@, o),
            !.state[o] = "Connecting"]
    ELSE st

\* cancel() with "state = Done" moved inside the if(state==Waiting) block
cancelOnlyWaiting(o, st) ==
    LET c == st.chan[o]
        st1 == IF st.state[o] = "Waiting"
               THEN [st EXCEPT
                        !.txLog = Append(@, DestroyMsg(st.sid[c], st.ioid[o])),
                        !.opByIOID = Erase(@, st.ioid[o]),
                        !.chanOps[c] = @ \ {st.ioid[o]},
                        !.state[o] = "Done"]
               ELSE st
    IN [st1 EXCEPT !.chan[o] = NoChan, !.done[o] = FALSE]

\* cancel() without "chan->conn->opByIOID.erase(ioid)"
cancelNoErase(o, st) ==
    LET c == st.chan[o]
        st1 == IF st.state[o] = "Waiting"
               THEN [st EXCEPT
                        !.txLog = Append(@, DestroyMsg(st.sid[c], st.ioid[o])),
                        !.chanOps[c] = @ \ {st.ioid[o]}]
               ELSE st
    IN [st1 EXCEPT !.state[o] = "Done", !.chan[o] = NoChan, !.done[o] = FALSE]

\* cancel() with the test "state==Waiting" weakened to "state!=Done"
cancelDestroyUnlessDone(o, st) ==
    LET c == st.chan[o]
        st1 == IF st.state[o] # "Done"
               THEN [st EXCEPT
                        !.txLog = Append(@, DestroyMsg(st.sid[c], st.ioid[o])),
                        !.opByIOID = Erase(@, st.ioid[o]),
                        !.chanOps[c] = @ \ {st.ioid[o]}]
               ELSE st
    IN [st1 EXCEPT !.state[o] = "Done", !.chan[o] = NoChan, !.done[o] = FALSE]

\* The closure InfoOp::cancel() hands to tcp_loop.call().
cancelClosure(o, st) ==
    LET c == st.chan[o]
        st1 == IF st.state[o] = "Waiting"
               THEN [st EXCEPT
                        !.txLog = Append(@, DestroyMsg(st.sid[c], st.ioid[o])),
                        !.opByIOID = Erase(@, st.ioid[o]),
                        !.chanOps[c] = @ \ {st.ioid[o]}]
               ELSE st
    IN [st1 EXCEPT !.state[o] = "Done", !.chan[o] = NoChan, !.done[o] = FALSE]

\* Connection::peerName of the one connection
PeerName == "peer"

\* from_wire_type(): a new MValue of the received type, no cell marked
prototypeOf(type) == [mutable |-> TRUE, type |-> type, marked |-> {}]

\* MValue::freeze() of a value no other handle shares
freezeSole(v) == [v EXCEPT !.mutable = FALSE]

\* no callback was called yet
NoResult == [kind |-> "none"]

\* Result(IValue, peerName) and Result(exception_ptr of RemoteError(msg))
ValueResult(v, peer) == [kind |-> "value", value |-> v, peer |-> peer]
ErrorResult(msg) == [kind |-> "error", what |-> "RemoteError", msg |-> msg]

\* lines 142-147 without the test of sts.isSuccess()
makeResultValueAlways(m) == ValueResult(freezeSole(prototypeOf(m.body)), PeerName)

\* lines 142-147: the Result a reply yields; body is the type description
\* of a success reply and the message of any other
makeResult(m) ==
    IF m.sts = "ok"
    THEN ValueResult(freezeSole(prototypeOf(m.body)), PeerName)
    ELSE ErrorResult(m.body)

\* Connection::handle_GET_FIELD() from the state check on: complete a
\* Waiting operation, invoke the callback if there is one (a callback that
\* throws is caught), else store the result.
completeReply(o, m, st) ==
    IF st.state[o] # "Waiting"
    THEN st
    ELSE IF st.done[o]
         THEN [st EXCEPT
                 !.state[o] = "Done",
                 !.done[o] = FALSE,
                 !.calls[o] = @ + 1,
                 !.delivered = makeResult(m)]
         ELSE [st EXCEPT
                 !.state[o] = "Done",
                 !.result[o] = IF m.sts = "ok" THEN "value" ELSE "empty"]

\* ---------------------------------------------------- Channel, Connection
\* do { ioid = conn->nextIOID++; } while(opByIOID holds ioid)
RECURSIVE AllocIOID(_, _)
AllocIOID(n, used) == IF n \in used THEN AllocIOID(n + 1, used) ELSE n

\* The loop of Channel::createOperations() over the list moved out of
\* pending: skip expired handles, allocate an ioid, register the operation
\* in both opByIOID maps, call createOp().
RECURSIVE createLoop(_, _, _)
createLoop(todo, c, st) ==
    IF todo = <<>>
    THEN st
    ELSE LET o == Head(todo) IN
         IF Expired(o)
         THEN createLoop(Tail(todo), c, st)
         ELSE LET id == AllocIOID(st.nextIOID, DOMAIN st.opByIOID)
                  st1 == [st EXCEPT
                            !.nextIOID = id + 1,
                            !.opByIOID = Insert(@, id, o),
                            !.chanOps[c] = @ \cup {id},
                            !.ioid[o] = id]
              IN createLoop(Tail(todo), c, createOp(o, st1))

\* Channel::createOperations()
createOperations(c, st) ==
    IF st.chState[c] # "Active"
    THEN st
    ELSE createLoop(st.pending[c], c, [st EXCEPT !.pending[c] = <<>>])

\* Peer close: tell every registered operation, in ioid order.
RECURSIVE disconnectLoop(_, _)
disconnectLoop(ids, st) ==
    IF ids = {}
    THEN st
    ELSE LET id == CHOOSE i \in ids : \A j \in ids : i <= j
             o == st.opByIOID[id]
         IN disconnectLoop(ids \ {id},
                           IF Expired(o) THEN st ELSE disconnected(o, st))

\* The connection is gone: channels leave Active, operations are told, the
\* maps and the ioid counter die with the Connection object.
dropConnection(st) ==
    LET st1 == disconnectLoop(DOMAIN st.opByIOID, st)
    IN [st1 EXCEPT
          !.chState = [c \in Chans |->
                         IF @[c] \in {"Connecting", "Active"}
                         THEN "Disconnected" ELSE @[c]],
          !.sid = [c \in Chans |-> NoSid],
          !.chanOps = [c \in Chans |-> {}],
          !.opByIOID = <<>>,
          !.nextIOID = 0,
          !.txLog = <<>>]

\* a user thread that is in no call
NoCall == [fn |-> "none"]

(***************************************************************************)
(* The value model (src/src/data.cpp, src/src/dataimpl.h)                  *)
(***************************************************************************)
\* The FieldDesc arrays of the types the model uses, one after the other (a
\* position stands for a FieldDesc pointer; positions of different types are
\* never related by parent_index or size).  size is FieldDesc::size();
\* parent_index the distance back to the enclosing Struct (0 at the top);
\* mlookup maps member names to offsets (Struct) or to indices of members
\* (Union), whose descs follow the Union's.
\*   0..3    struct { int64 a; struct { int64 b; } s; }
\*   4..8    struct { struct { int64 a; int32 b; } s; int64 c; }
\*   9..10   struct { int64 y; }
\*   11..13  struct { union { int64 y; } y; }   (13: the union's member y)
\*   14..15  struct { any y; }
\*   16..17  struct { struct[] y; }   (elements: struct { int64 y; })
\*   18..31  struct { T y; } for T = float64, uint64, bool, string, int32[],
\*           union[] (elements: the union of 12), any[]
FD(code, size, parent, ml) ==
    [code |-> code, size |-> size, parent_index |-> parent, mlookup |-> ml]

FieldDescs ==
    << FD("Struct", 4, 0, {<< <<"a">>, 1 >>, << <<"s">>, 2 >>, << <<"s", ".", "b">>, 3 >>}),
       FD("Int64", 1, 1, {}),
       FD("Struct", 2, 2, {<< <<"b">>, 1 >>}),
       FD("Int64", 1, 1, {}),
       FD("Struct", 5, 0, {<< <<"s">>, 1 >>, << <<"s", ".", "a">>, 2 >>,
                           << <<"s", ".", "b">>, 3 >>, << <<"c">>, 4 >>}),
       FD("Struct", 3, 1, {<< <<"a">>, 1 >>, << <<"b">>, 2 >>}),
       FD("Int64", 1, 1, {}),
       FD("Int32", 1, 2, {}),
       FD("Int64", 1, 4, {}),
       FD("Struct", 2, 0, {<< <<"y">>, 1 >>}),
       FD("Int64", 1, 1, {}),
       FD("Struct", 2, 0, {<< <<"y">>, 1 >>}),
       FD("Union", 1, 1, {<< <<"y">>, 0 >>}),
       FD("Int64", 1, 0, {}),
       FD("Struct", 2, 0, {<< <<"y">>, 1 >>}),
       FD("Any", 1, 1, {}),
       FD("Struct", 2, 0, {<< <<"y">>, 1 >>}),
       FD("StructA", 1, 1, {}),
       FD("Struct", 2, 0, {<< <<"y">>, 1 >>}),
       FD("Float64", 1, 1, {}),
       FD("Struct", 2, 0, {<< <<"y">>, 1 >>}),
       FD("UInt64", 1, 1, {}),
       FD("Struct", 2, 0, {<< <<"y">>, 1 >>}),
       FD("Bool", 1, 1, {}),
       FD("Struct", 2, 0, {<< <<"y">>, 1 >>}),
       FD("String", 1, 1, {}),
       FD("Struct", 2, 0, {<< <<"y">>, 1 >>}),
       FD("Int32A", 1, 1, {}),
       FD("Struct", 2, 0, {<< <<"y">>, 1 >>}),
       FD("UnionA", 1, 1, {}),
       FD("Struct", 2, 0, {<< <<"y">>, 1 >>}),
       FD("AnyA", 1, 1, {}) >>

\* where the FieldDesc array of each type starts: First is the type of 0..3,
\* Wide that of 4..8, Plain struct { int64 y; }, and the others struct { T y; }
\* with T a union, an any, a struct[], a float64, a uint64, a bool, a string,
\* an int32[], a union[], an any[]
Top ==
    [First |-> 0, Wide |-> 4, Plain |-> 9, Union |-> 11, Any |-> 14, Array |-> 16,
     Real |-> 18, UInt |-> 20, Bool |-> 22, String |-> 24, Int32A |-> 26,
     UnionA |-> 28, AnyA |-> 30]

\* the FieldDesc at (0-based) position d of the array
descAt(d) == FieldDescs[d + 1]

\* FieldStorage::init(): the StoreType of a cell described by position d
StoreCode(d) ==
    CASE descAt(d).code = "Struct" -> "Null"
      [] descAt(d).code \in {"StructA", "UnionA", "AnyA", "Int32A"} -> "Array"
      [] descAt(d).code \in {"Union", "Any"} -> "Compound"
      [] descAt(d).code = "Float64" -> "Real"
      [] descAt(d).code = "UInt64" -> "UInteger"
      [] descAt(d).code = "Bool" -> "Bool"
      [] descAt(d).code = "String" -> "String"
      [] OTHER -> "Integer"

\* TypeCode::kind()
KindOf(code) ==
    CASE code \in {"Struct", "Union", "Any", "StructA", "UnionA", "AnyA"} -> "Compound"
      [] code = "Float64" -> "Real"
      [] code = "Bool" -> "Bool"
      [] code = "String" -> "String"
      [] OTHER -> "Integer"

\* desc->members.data(): the desc of the members of a Union, of the elements
\* of a StructA or UnionA
membersAt(d) ==
    CASE descAt(d).code = "Union" -> d + 1
      [] descAt(d).code = "StructA" -> Top.Plain
      [] descAt(d).code = "UnionA" -> Top.Union + 1
      [] OTHER -> -1

\* a shared_array<const void>: original_type() and the elements (of a Value
\* array: the trees the elements point into, 0 for an empty Value)
SharedArray(type, elems) == [otype |-> type, elems |-> elems]
\* shared_array<const void>(): empty, untyped
NullArray == SharedArray("Null", <<>>)

\* what FieldStorage::init() puts into a cell of each StoreType
InitVal(d) ==
    CASE StoreCode(d) = "Array" -> NullArray
      [] StoreCode(d) = "Bool" -> FALSE
      [] StoreCode(d) = "String" -> ""
      [] OTHER -> 0
ScalarKinds == {"Integer", "Real", "String", "Bool"}

Values == 0..MaxVal
TreeIds == 1..MaxTrees
NoTree == [top |-> -1]

\* ValueBase(desc): a StructTop whose desc is position d, with desc->size()
\* cells, each initialised by FieldStorage::init(), none valid
NewTree(d) ==
    [top |-> d,
     valid |-> [k \in 0..(descAt(d).size - 1) |-> FALSE],
     val |-> [k \in 0..(descAt(d).size - 1) |-> InitVal(d + k)]]

\* a non-empty handle: MValue ("M") or IValue ("I"), sharing ownership of
\* tree t, with store pointing at cell k of top->members
Handle(kind, t, k) == [kind |-> kind, tree |-> t, idx |-> k]

\* the FieldDesc position a handle's desc points at
DescOf(h, ts) == ts[h.tree].top + h.idx

\* store.use_count(): the handles sharing ownership of tree t
UseCount(t, hs) ==
    BagCardinality([h \in {x \in DOMAIN hs : x.tree = t} |-> hs[h]])

\* whether tree id t is in use
Live(t, ts) == ts[t].top >= 0

\* the id a newly allocated StructTop gets: the lowest one not in use
FreeTree(ts) == CHOOSE t \in TreeIds : ~Live(t, ts) /\ \A u \in 1..(t - 1) : Live(u, ts)

\* Tree ids stand for addresses: only which handles share a tree matters.
\* After a tree is freed the remaining ids are renumbered in order.
compact(hs, ts) ==
    LET live == {t \in TreeIds : Live(t, ts)}
        rank(t) == Cardinality({u \in live : u <= t})
        ren(h) == [h EXCEPT !.tree = rank(h.tree)]
    IN [handles |-> [g \in {ren(h) : h \in DOMAIN hs} |->
                        hs[CHOOSE h \in DOMAIN hs : ren(h) = g]],
        trees |-> [r \in TreeIds |->
                      IF \E t \in live : rank(t) = r
                      THEN ts[CHOOSE t \in live : rank(t) = r]
                      ELSE NoTree]]

\* a handle stops referring to its tree (destroyed, or reset to empty): the
\* shared_ptr releases the StructTop when the last owner goes
release(h, hs, ts) ==
    LET hs2 == hs (-) SetToBag({h})
        ts2 == IF UseCount(h.tree, hs2) = 0
               THEN [ts EXCEPT ![h.tree] = NoTree] ELSE ts
    IN compact(hs2, ts2)

\* handle h is replaced by handle g (same tree)
retarget(h, g, hs) == (hs (-) SetToBag({h})) (+) SetToBag({g})

\* The inner loop of MValue::assign() for a valid Struct cell: each visited
\* cell is marked; a leaf is copied and  bit  advanced by the case AND by the
\* for statement.  Returns the target and the  bit  the loop ended with.
RECURSIVE assignSub(_, _, _, _, _, _)
assignSub(dst, dk, src, sk, bit, end2) ==
    IF bit >= end2
    THEN [tree |-> dst, bit |-> bit]
    ELSE LET d1 == [dst EXCEPT !.valid[dk + bit] = TRUE]
         IN IF StoreCode(dst.top + dk + bit) # "Null"
            THEN assignSub([d1 EXCEPT !.val[dk + bit] = src.val[sk + bit]],
                           dk, src, sk, bit + 2, end2)
            ELSE assignSub(d1, dk, src, sk, bit + 1, end2)

\* The outer loop of MValue::assign(): cells of the source that are not valid
\* are passed over
RECURSIVE assignLoop(_, _, _, _, _, _)
assignLoop(dst, dk, src, sk, bit, end) ==
    IF bit >= end
    THEN dst
    ELSE IF ~src.valid[sk + bit]
    THEN assignLoop(dst, dk, src, sk, bit + 1, end)
    ELSE LET d1 == [dst EXCEPT !.valid[dk + bit] = TRUE]
         IN IF StoreCode(dst.top + dk + bit) # "Null"
            THEN assignLoop([d1 EXCEPT !.val[dk + bit] = src.val[sk + bit]],
                            dk, src, sk, bit + 1, end)
            ELSE LET r == assignSub(d1, dk, src, sk, bit,
                                    bit + descAt(dst.top + dk + bit).size)
                 IN assignLoop(r.tree, dk, src, sk, r.bit, end)

\* MValue::assign(o) between handles of the same desc: the handle at cell dk
\* of dst takes the handle at cell sk of src
assign(dst, dk, src, sk) ==
    assignLoop(dst, dk, src, sk, 0, descAt(dst.top + dk).size)

\* MValue::assign(o) of MValue h from handle g: differing descs are accepted
\* when both have the same TypeCode, of a scalar kind; else they are refused
assignTo(h, g, hs, ts) ==
    LET d == ts[h.tree].top + h.idx
        o == ts[g.tree].top + g.idx
    IN IF d # o /\ ~(descAt(d).code = descAt(o).code
                      /\ KindOf(descAt(d).code) \in ScalarKinds)
       THEN [handles |-> hs, trees |-> ts, raised |-> "runtime_error"]
       ELSE [handles |-> hs,
             trees |-> [ts EXCEPT ![h.tree] =
                           assign(ts[h.tree], h.idx, ts[g.tree], g.idx)],
             raised |-> "none"]

\* ValueBase::clone() of the handle at cell k of tree: a new tree whose top
\* desc is the handle's desc, then assign()
cloneTree(tree, k) == assign(NewTree(tree.top + k), 0, tree, k)

\* MValue::copyIn() of an integer into a scalar cell
copyIn(tree, k, v) == [tree EXCEPT !.val[k] = v, !.valid[k] = TRUE]

\* MValue::mark(v)
mark(tree, k, v) == [tree EXCEPT !.valid[k] = v]

\* the children loop of unmark(): cells store+0 .. store+size-1
unmarkChildren(tree, k) ==
    [tree EXCEPT !.valid = [i \in DOMAIN tree.valid |->
        IF i >= k /\ i < k + descAt(tree.top + k).size THEN FALSE ELSE tree.valid[i]]]

\* The parents loop of unmark(): pdesc steps back by its own parent_index,
\* then pstore steps back by the parent_index of the desc pdesc NOW points
\* at.  fault: pstore left top->members, the write is undefined behaviour.
RECURSIVE unmarkParents(_, _, _)
unmarkParents(tree, pdesc, pstore) ==
    IF pdesc = tree.top
    THEN [tree |-> tree, fault |-> FALSE]
    ELSE LET pd == pdesc - descAt(pdesc).parent_index
             ps == pstore - descAt(pd).parent_index
         IN IF ps \notin DOMAIN tree.valid
            THEN [tree |-> tree, fault |-> TRUE]
            ELSE unmarkParents([tree EXCEPT !.valid[ps] = FALSE], pd, ps)

\* unmark() that clears the whole subtree whatever the options
unmarkSubtree(tree, k, parents, children) ==
    [tree |-> unmarkChildren([tree EXCEPT !.valid[k] = FALSE], k), fault |-> FALSE]

\* MValue::unmark(parents, children) of the handle at cell k
unmark(tree, k, parents, children) ==
    LET t1 == [tree EXCEPT !.valid[k] = FALSE]
        t2 == IF children /\ descAt(tree.top + k).size > 1
              THEN unmarkChildren(t1, k) ELSE t1
    IN IF parents
       THEN unmarkParents(t2, tree.top + k, k)
       ELSE [tree |-> t2, fault |-> FALSE]

\* The parents loop of isMarked(), stepping as the one of unmark().  fault:
\* pstore left top->members, the read is undefined behaviour.
RECURSIVE isMarkedParents(_, _, _)
isMarkedParents(tree, pdesc, pstore) ==
    IF pdesc = tree.top
    THEN [value |-> FALSE, fault |-> FALSE]
    ELSE LET pd == pdesc - descAt(pdesc).parent_index
             ps == pstore - descAt(pd).parent_index
         IN IF ps \notin DOMAIN tree.valid
            THEN [value |-> FALSE, fault |-> TRUE]
            ELSE IF tree.valid[ps]
            THEN [value |-> TRUE, fault |-> FALSE]
            ELSE isMarkedParents(tree, pd, ps)

\* ValueBase::isMarked(parents, children) of the handle at cell k
isMarked(tree, k, parents, children) ==
    IF tree.valid[k]
    THEN [value |-> TRUE, fault |-> FALSE]
    ELSE IF children /\ descAt(tree.top + k).size > 1
            /\ \E bit \in 0..(descAt(tree.top + k).size - 1) : tree.valid[k + bit]
    THEN [value |-> TRUE, fault |-> FALSE]
    ELSE IF parents
    THEN isMarkedParents(tree, tree.top + k, k)
    ELSE [value |-> FALSE, fault |-> FALSE]

\* mark(), unmark() and isMarked() called without options: mark(true), and
\* neither parents nor children (the declarations are in data.h)
DefaultMark == TRUE
DefaultParents == FALSE
DefaultChildren == FALSE

\* ValueBase::_iter_advance() of a depth-first iteration of the handle at
\* cell k: IterInfo after the scan for the next valid cell from info.pos
iter_advance(tree, k, info) ==
    LET size == descAt(tree.top + k).size
        found == {idx \in info.pos..(size - 1) : tree.valid[k + idx]}
    IN IF found # {}
       THEN LET idx == CHOOSE i \in found : \A j \in found : i <= j
            IN [pos |-> idx, nextcheck |-> idx + descAt(tree.top + k + idx).size]
       ELSE [pos |-> size, nextcheck |-> size]

\* ValueBase::_iter_fl() of a marked depth-first iteration: IterInfo of
\* begin() (first) and of end()
iter_fl(tree, k, first) ==
    LET p == k + (IF first THEN 1 ELSE descAt(tree.top + k).size)
    IN iter_advance(tree, k, [pos |-> p, nextcheck |-> p])

\* ValueBase::_iter_deref(): the cell of the handle an iterator yields
iter_deref(tree, k, info) == k + info.pos

\* the loop from begin() to end(): operator++ goes on from nextcheck; the
\* cells of the handles yielded, in order
RECURSIVE iterLoop(_, _, _, _, _)
iterLoop(tree, k, info, end, visited) ==
    IF info.pos = end.pos
    THEN visited
    ELSE iterLoop(tree, k,
                  iter_advance(tree, k, [info EXCEPT !.pos = info.nextcheck]),
                  end, Append(visited, iter_deref(tree, k, info)))

\* for(auto fld : val.imarked()) of the handle at cell k
forEachMarked(tree, k) ==
    iterLoop(tree, k, iter_fl(tree, k, TRUE), iter_fl(tree, k, FALSE), <<>>)

\* what an operation leaves behind
Outcome(hs, ts, r) == [handles |-> hs, trees |-> ts, raised |-> r]

\* freeze() without the use_count() test
freezeShared(h, hs, ts) ==
    Outcome(retarget(h, [h EXCEPT !.kind = "I"], hs), ts, "none")

\* MValue::freeze() of handle h
freeze(h, hs, ts) ==
    IF UseCount(h.tree, hs) > 1
    THEN Outcome(hs, ts, "runtime_error")
    ELSE Outcome(retarget(h, [h EXCEPT !.kind = "I"], hs), ts, "none")

\* ValueBase::clone() of handle h: the result is a new MValue
clone(h, hs, ts) ==
    Outcome(hs (+) SetToBag({Handle("M", FreeTree(ts), 0)}),
            [ts EXCEPT ![FreeTree(ts)] = cloneTree(ts[h.tree], h.idx)],
            "none")

\* thaw() without the use_count() test
thawShared(h, hs, ts) ==
    Outcome(retarget(h, [h EXCEPT !.kind = "M"], hs), ts, "none")

\* IValue::thaw() of handle h
thaw(h, hs, ts) ==
    IF UseCount(h.tree, hs) = 1
    THEN Outcome(retarget(h, [h EXCEPT !.kind = "M"], hs), ts, "none")
    ELSE clone(h, hs, ts)

\* A shared_array object: data names the buffer _data owns (0: none), size
\* is _size, elem the element type E ("void" for the void variant), const
\* whether E is const, type the ArrayType _type of a void variant ("Null"
\* otherwise).  An array variable of the program is a slot of arrays;
\* NoArray marks a slot without an object.
Array(data, size, elem, const, type) ==
    [data |-> data, size |-> size, elem |-> elem, const |-> const, type |-> type]
NoArray == Array(0, 0, "none", FALSE, "Null")
NoArrays == [a \in 1..MaxArrays |-> NoArray]

\* The cells of the value a subscription carries, and an update of it: for
\* each cell the serial number of the post() that marked it, 0 for a cell
\* that is not marked.
Cells == 1..2
Update(serial, marked) == [c \in Cells |-> IF c \in marked THEN serial ELSE 0]

\* A subscription in the server (MonitorControlOp): the queue of updates
\* not sent yet, MonitorStat::limitQueue, the levels of setWatermarks(),
\* whether each level's condition held when it was last looked at, the
\* number of updates posted, and whether post() alone has been called.
Monitor(queue, limitQueue, low, high, atLow, atHigh, posts, onlyPost) ==
    [queue |-> queue, limitQueue |-> limitQueue, low |-> low, high |-> high,
     atLow |-> atLow, atHigh |-> atHigh, posts |-> posts, onlyPost |-> onlyPost]
NoMonitor == Monitor(<<>>, 0, 0, 0, TRUE, FALSE, 0, TRUE)
NoSubscription == [phase |-> "none"]

DataInit ==
    /\ handles = SetToBag({Handle("M", 1, 0)})
    /\ trees = [t \in TreeIds |-> IF t = 1 THEN NewTree(0) ELSE NoTree]
    /\ raised = "none"
    /\ valueCall = NoCall
    /\ arrays = NoArrays
    /\ monitor = NoMonitor
    /\ subscription = NoSubscription

\* ------------------------------------------------------------- Init
ClientInit ==
    /\ state = [o \in Ops |-> "None"]
    /\ chan = [o \in Ops |-> NoChan]
    /\ done = [o \in Ops |-> FALSE]
    /\ result = [o \in Ops |-> "none"]
    /\ ioid = [o \in Ops |-> NoIoid]
    /\ pc = [o \in Ops |-> "idle"]
    /\ chState = [c \in Chans |-> "None"]
    /\ sid = [c \in Chans |-> NoSid]
    /\ pending = [c \in Chans |-> <<>>]
    /\ chanOps = [c \in Chans |-> {}]
    /\ connOpen = FALSE
    /\ opByIOID = <<>>
    /\ nextIOID = 0
    /\ txLog = <<>>
    /\ peerPos = 0
    /\ rx = <<>>
    /\ crashed = "none"
    /\ calls = [o \in Ops |-> 0]
    /\ delivered = NoResult
    /\ cancelled = [o \in Ops |-> FALSE]
    /\ everActive = [c \in Chans |-> FALSE]
    /\ nDisc = 0
    /\ lostBy = "none"
    /\ userCall = [t \in Threads |-> NoCall]
    /\ loopQ = <<>>
    /\ loopBusy = 0

Init == ClientInit /\ DataInit

\* ------------------------------------------------------- user threads
\* _exec_info() calling op->createOp() itself instead of queueing the
\* operation and leaving the start to chan->createOperations()
ExecDirect(o, c, cb) ==
    /\ crashed = "none"
    /\ pc[o] = "idle"
    /\ \A p \in Ops : p < o => pc[p] # "idle"
    /\ \A d \in Chans : d < c => chState[d] # "None"
    /\ LET st1 == [Cur EXCEPT
                     !.chState[c] = IF @ = "None" THEN "Searching" ELSE @,
                     !.state[o] = "Connecting",
                     !.chan[o] = c,
                     !.done[o] = cb]
       IN Commit(createOp(o, st1))
    /\ pc' = [pc EXCEPT ![o] = "held"]
    /\ UNCHANGED <<connOpen, peerPos, rx, crashed, cancelled, everActive, nDisc,
                   lostBy, frameVars>>

\* The closure _exec_info() hands to tcp_loop.call(): build the channel
\* (a new one starts Searching) and the operation, append it to pending,
\* run createOperations().
execClosure(o, c, cb, st) ==
    LET st1 == [st EXCEPT
                  !.chState[c] = IF @ = "None" THEN "Searching" ELSE @,
                  !.state[o] = "Connecting",
                  !.chan[o] = c,
                  !.done[o] = cb,
                  !.pending[c] = Append(@, o)]
    IN createOperations(c, st1)

\* GetBuilder::_exec_info(): exec() returns the handle once the closure has
\* run.  Operations are numbered in the order of their exec(), channels in
\* the order in which Channel::build() makes them.
Exec(o, c, cb) ==
    /\ crashed = "none"
    /\ pc[o] = "idle"
    /\ \A p \in Ops : p < o => pc[p] # "idle"
    /\ \A d \in Chans : d < c => chState[d] # "None"
    /\ Commit(execClosure(o, c, cb, Cur))
    /\ pc' = [pc EXCEPT ![o] = "held"]
    /\ UNCHANGED <<connOpen, peerPos, rx, crashed, cancelled, everActive, nDisc,
                   lostBy, frameVars>>

\* InfoOp::cancel(): the closure has run when the call returns.  after is
\* "held" for an explicit cancel() and "gone" for the one ~InfoOp() makes.
cancelReturn(o, after) ==
    /\ Commit(cancelClosure(o, Cur))
    /\ pc' = [pc EXCEPT ![o] = after]
    /\ cancelled' = [cancelled EXCEPT ![o] = TRUE]
    /\ crashed' = crashed

\* "auto context = chan->context" reads through chan before the closure is
\* posted.  With an empty chan that is undefined behaviour: the process is
\* killed, or the read happens to go through and cancel() carries on.
cancelCall(o, after) ==
    /\ crashed = "none"
    /\ pc[o] = "held"
    /\ IF chan[o] = NoChan
       THEN \/ /\ crashed' = "cancel"
               /\ UNCHANGED <<opVars, chanVars, opByIOID, nextIOID, txLog,
                              pc, calls, delivered, cancelled>>
            \/ cancelReturn(o, after)
       ELSE cancelReturn(o, after)
    /\ UNCHANGED <<connOpen, peerPos, rx, everActive, nDisc, lostBy, frameVars>>

\* The user calls cancel() on the handle.
Cancel(o) == cancelCall(o, "held")

\* The user drops the handle: ~InfoOp() calls cancel(), then the object and
\* every weak handle to it are gone.
Drop(o) == cancelCall(o, "gone")

\* ------------------------------------------------------- channel life
\* Search completes: the channel is bound to the connection (made on
\* demand) and CREATE_CHANNEL is sent.
SearchDone(c) ==
    /\ crashed = "none"
    /\ chState[c] \in {"Searching", "Disconnected"}
    /\ chState' = [chState EXCEPT ![c] = "Connecting"]
    /\ connOpen' = TRUE
    /\ lostBy' = "none"
    /\ UNCHANGED <<opVars, sid, pending, chanOps, opByIOID, nextIOID, txLog,
                   peerPos, rx, pc, crashed, calls, delivered, cancelled,
                   everActive, nDisc, frameVars>>

\* CREATE_CHANNEL reply: the channel is Active under the server's sid and
\* createOperations() starts what is pending.
ChannelCreated(c) ==
    /\ crashed = "none"
    /\ connOpen
    /\ chState[c] = "Connecting"
    /\ LET st1 == [Cur EXCEPT !.chState[c] = "Active", !.sid[c] = c]
       IN Commit(createOperations(c, st1))
    /\ everActive' = [everActive EXCEPT ![c] = TRUE]
    /\ UNCHANGED <<connOpen, peerPos, rx, pc, crashed, cancelled, nDisc, lostBy,
                   frameVars>>

\* The connection is lost: the Connection object and what was in flight on
\* it are gone.
connectionLost ==
    /\ Commit(dropConnection(Cur))
    /\ connOpen' = FALSE
    /\ peerPos' = 0
    /\ rx' = <<>>
    /\ nDisc' = nDisc + 1
    /\ UNCHANGED <<pc, crashed, cancelled, everActive, frameVars>>

\* The peer closes the connection.
Disconnect ==
    /\ crashed = "none"
    /\ connOpen
    /\ nDisc < MaxDisc
    /\ connectionLost
    /\ lostBy' = "close"

\* ------------------------------------------------------------- peer
\* a GET_FIELD reply: ioid, status, then the type description (a success)
\* or the status message (any other status); good is M.good() after decoding
Reply(i, s, b, g) == [ioid |-> i, sts |-> s, body |-> b, good |-> g]

\* what the peer answers for the PV behind a channel: its type description,
\* or its error message (both named by the sid)
BodyOf(s) == s

\* the body of a reply no request asked for
JunkBody == 0

\* the body of an unasked reply with ioid i: the one the peer gave or
\* would give for the request that carried i, if there was one
bodyFor(i) ==
    LET asked == {k \in 1..Len(txLog) :
                    txLog[k].cmd = "GET_FIELD" /\ txLog[k].ioid = i}
    IN IF asked = {} THEN JunkBody
       ELSE BodyOf(txLog[CHOOSE k \in asked : TRUE].sid)

\* The peer reads the next command; it answers a GET_FIELD with the
\* request's ioid and does not answer a DESTROY_REQUEST.
PeerAnswer(s) ==
    /\ crashed = "none"
    /\ connOpen
    /\ peerPos < Len(txLog)
    /\ peerPos' = peerPos + 1
    /\ LET m == txLog[peerPos + 1] IN
       rx' = IF m.cmd = "GET_FIELD"
             THEN Append(rx, Reply(m.ioid, s, BodyOf(m.sid), TRUE))
             ELSE rx
    /\ UNCHANGED <<opVars, chanVars, connOpen, opByIOID, nextIOID, txLog, pc,
                   crashed, ghostVars, frameVars>>

\* The peer sends a well-formed reply nobody asked for: a duplicate, or an
\* ioid no request carried.
PeerJunk(i, s) ==
    /\ crashed = "none"
    /\ connOpen
    /\ Len(rx) < MaxRx
    /\ rx' = Append(rx, Reply(i, s, bodyFor(i), TRUE))
    /\ UNCHANGED <<opVars, chanVars, connOpen, opByIOID, nextIOID, txLog,
                   peerPos, pc, crashed, ghostVars, frameVars>>

\* The peer sends bytes that do not decode as a GET_FIELD reply.
PeerMalformed ==
    /\ crashed = "none"
    /\ connOpen
    /\ Len(rx) < MaxRx
    /\ nDisc < MaxDisc
    /\ rx' = Append(rx, Reply(0, "err", JunkBody, FALSE))
    /\ UNCHANGED <<opVars, chanVars, connOpen, opByIOID, nextIOID, txLog,
                   peerPos, pc, crashed, ghostVars, frameVars>>

\* ------------------------------------------------- handle_GET_FIELD
\* the handler of a repeating operation: the registration, the state and
\* the callback are kept, the callback runs for every reply
lookupReplyRepeating(m, st) ==
    IF m.ioid \notin DOMAIN st.opByIOID \/ Expired(st.opByIOID[m.ioid])
    THEN st
    ELSE LET o == st.opByIOID[m.ioid] IN
         IF st.done[o]
         THEN [st EXCEPT
                 !.calls[o] = @ + 1,
                 !.delivered = makeResult(m)]
         ELSE st

\* lines 116-157: look the ioid up, lock the handle, erase both entries,
\* complete the operation
lookupReply(m, st) ==
    IF m.ioid \notin DOMAIN st.opByIOID \/ Expired(st.opByIOID[m.ioid])
    THEN st
    ELSE LET o == st.opByIOID[m.ioid]
             st1 == [st EXCEPT !.opByIOID = Erase(@, m.ioid)]
             st2 == IF st.chan[o] = NoChan
                    THEN st1
                    ELSE [st1 EXCEPT !.chanOps[st.chan[o]] = @ \ {m.ioid}]
         IN completeReply(o, m, st2)

\* the reply reaches "info->chan->opByIOID.erase(ioid)" with an empty chan
replyDerefsNull(m) ==
    /\ m.good
    /\ m.ioid \in DOMAIN opByIOID
    /\ ~Expired(opByIOID[m.ioid])
    /\ chan[opByIOID[m.ioid]] = NoChan

\* how a call of the user callback can end: it returns, it throws an
\* exception derived from std::exception, it throws anything else
CbOutcomes == {"returned", "std", "other"}

\* lines 148-152: "catch(std::exception& e)" stops an exception derived
\* from std::exception; any other leaves handle_GET_FIELD
callbackEnds(out) == IF out = "other" THEN "callback" ELSE "none"

replyHandled(m) ==
    LET st == lookupReply(m, Cur)
        ran == {o \in Ops : st.calls[o] > calls[o]}
    IN /\ Commit(st)
       /\ rx' = Tail(rx)
       /\ IF ran = {}
          THEN crashed' = crashed
          ELSE \E out \in CbOutcomes : crashed' = callbackEnds(out)
       /\ UNCHANGED <<connOpen, peerPos, pc, cancelled, everActive, nDisc, lostBy,
                      frameVars>>

\* handle_GET_FIELD() without the test "if(!M.good())": what was decoded
\* from the bytes is handled like any reply
HandleReplyNoCheck ==
    /\ crashed = "none"
    /\ rx # <<>>
    /\ replyHandled(Head(rx))

\* Connection::handle_GET_FIELD()
HandleReply ==
    /\ crashed = "none"
    /\ rx # <<>>
    /\ LET m == Head(rx) IN
       IF ~m.good
       THEN \* invalid GET_FIELD: bev.reset(), the connection is dropped
            connectionLost /\ lostBy' = "invalid"
       ELSE IF replyDerefsNull(m)
       THEN \* undefined behaviour: the process is killed, or the erase
            \* through the empty chan happens to do nothing
            \/ /\ crashed' = "handle_GET_FIELD"
               /\ UNCHANGED <<opVars, chanVars, connVars, pc, ghostVars, frameVars>>
            \/ replyHandled(m)
       ELSE replyHandled(m)

\* ------------------------------------------------------------- Next
\* the ioids a connection can have handed out, and one it has not
Ioids == 0..MaxOps

Next ==
    \/ \E o \in Ops, c \in Chans, cb \in BOOLEAN : Exec(o, c, cb)
    \/ \E o \in Ops : Cancel(o)
    \/ \E o \in Ops : Drop(o)
    \/ \E c \in Chans : SearchDone(c)
    \/ \E c \in Chans : ChannelCreated(c)
    \/ Disconnect
    \/ \E s \in {"ok", "err"} : PeerAnswer(s)
    \/ \E i \in Ioids, s \in {"ok", "err"} : PeerJunk(i, s)
    \/ PeerMalformed
    \/ HandleReply

Spec == Init /\ [][Next]_vars

\* The executor handles every reply it has received; the peer reads and
\* answers every command it was sent; a search that can complete does, and
\* so does a CREATE_CHANNEL.  Peer closes are finitely many (MaxDisc).
Fairness ==
    /\ WF_vars(HandleReply)
    /\ WF_vars(\E s \in {"ok", "err"} : PeerAnswer(s))
    /\ \A c \in Chans : WF_vars(SearchDone(c))
    /\ \A c \in Chans : WF_vars(ChannelCreated(c))

SpecLive == Init /\ [][Next]_vars /\ Fairness

(***************************************************************************)
(* The same operations with user threads and the I/O executor apart.  A   *)
(* call of exec() or cancel() hands its closure to tcp_loop.call() and    *)
(* blocks; the executor starts one queued closure at a time, runs it to   *)
(* its end and wakes the caller; message handlers run on the executor     *)
(* between closures.                                                       *)
(***************************************************************************)
\* thread t is inside a call whose closure waits for, or had, its run
InCall(t, fn, o, c, cb, after) ==
    [fn |-> fn, op |-> o, ch |-> c, cb |-> cb, after |-> after,
     stage |-> "posted"]

\* some thread is in a call on operation o (of kind fn)
Calling(o, fn) ==
    \E u \in Threads : userCall[u] # NoCall /\ userCall[u].op = o
                          /\ userCall[u].fn = fn

\* tcp_loop.call(closure) as seen by the caller: post and block
postCall(t, call) ==
    /\ userCall' = [userCall EXCEPT ![t] = call]
    /\ loopQ' = Append(loopQ, t)
    /\ UNCHANGED <<clientVars, loopBusy, dataVars>>

\* thread t calls exec(): _exec_info() does nothing but hand its closure
\* to tcp_loop.call()
CallExec(t, o, c, cb) ==
    /\ crashed = "none"
    /\ userCall[t] = NoCall
    /\ pc[o] = "idle" /\ ~Calling(o, "exec")
    /\ \A p \in Ops : p < o => (pc[p] # "idle" \/ Calling(p, "exec"))
    /\ \A d \in Chans : d < c =>
          \/ chState[d] # "None"
          \/ \E u \in Threads : userCall[u] # NoCall /\ userCall[u].ch = d
    /\ postCall(t, InCall(t, "exec", o, c, cb, "held"))

\* cancel() with the closure's statements run by the calling thread
CallCancelInline(t, o, after) ==
    /\ crashed = "none"
    /\ userCall[t] = NoCall
    /\ pc[o] = "held"
    /\ chan[o] # NoChan
    /\ Commit(cancelClosure(o, Cur))
    /\ userCall' = [userCall EXCEPT
                      ![t] = [InCall(t, "cancel", o, NoChan, FALSE, after)
                                 EXCEPT !.stage = "ran"]]
    /\ UNCHANGED <<connOpen, peerPos, rx, pc, crashed, cancelled, everActive,
                   nDisc, lostBy, loopQ, loopBusy, dataVars>>

\* thread t calls cancel() (after = "held"), or drops the last handle so
\* that ~InfoOp() calls it (after = "gone"): line 41 reads chan->context
\* on the calling thread, then the closure goes to tcp_loop.call()
CallCancel(t, o, after) ==
    /\ crashed = "none"
    /\ userCall[t] = NoCall
    /\ pc[o] = "held"
    /\ \A u \in Threads : userCall[u] # NoCall /\ userCall[u].op = o =>
          (after = "held" /\ userCall[u].after = "held")
    /\ IF chan[o] = NoChan
       THEN \/ /\ crashed' = "cancel"
               /\ UNCHANGED <<opVars, chanVars, connVars, pc, ghostVars,
                              loopVars, dataVars>>
            \/ postCall(t, InCall(t, "cancel", o, NoChan, FALSE, after))
       ELSE postCall(t, InCall(t, "cancel", o, NoChan, FALSE, after))

\* the executor takes the next closure
LoopBegin ==
    /\ crashed = "none"
    /\ loopBusy = 0
    /\ loopQ # <<>>
    /\ loopBusy' = Head(loopQ)
    /\ loopQ' = Tail(loopQ)
    /\ UNCHANGED <<clientVars, userCall, dataVars>>

\* the executor runs the closure it took, to its end
LoopRun ==
    /\ crashed = "none"
    /\ loopBusy # 0
    /\ LET call == userCall[loopBusy] IN
       Commit(IF call.fn = "exec"
              THEN execClosure(call.op, call.ch, call.cb, Cur)
              ELSE cancelClosure(call.op, Cur))
    /\ userCall' = [userCall EXCEPT ![loopBusy].stage = "ran"]
    /\ loopBusy' = 0
    /\ UNCHANGED <<connOpen, peerPos, rx, pc, crashed, cancelled, everActive,
                   nDisc, lostBy, loopQ, dataVars>>

\* tcp_loop.call() returns in thread t: exec() hands out the handle,
\* cancel() returns, ~InfoOp() ends
Return(t) ==
    /\ crashed = "none"
    /\ userCall[t] # NoCall
    /\ userCall[t].stage = "ran"
    /\ pc' = [pc EXCEPT ![userCall[t].op] = userCall[t].after]
    /\ cancelled' = [cancelled EXCEPT
                       ![userCall[t].op] = @ \/ userCall[t].fn = "cancel"]
    /\ userCall' = [userCall EXCEPT ![t] = NoCall]
    /\ UNCHANGED <<opVars, chanVars, connVars, crashed, calls, delivered,
                   everActive, nDisc, lostBy, loopQ, loopBusy, dataVars>>

\* the handlers, run by the executor when it is in no closure
LoopSearchDone(c) == loopBusy = 0 /\ SearchDone(c)
LoopChannelCreated(c) == loopBusy = 0 /\ ChannelCreated(c)
LoopHandleReply == loopBusy = 0 /\ HandleReply
LoopDisconnect == loopBusy = 0 /\ Disconnect

NextLoop ==
    \/ \E t \in Threads, o \in Ops, c \in Chans, cb \in BOOLEAN :
          CallExec(t, o, c, cb)
    \/ \E t \in Threads, o \in Ops, after \in {"held", "gone"} :
          CallCancel(t, o, after)
    \/ LoopBegin
    \/ LoopRun
    \/ \E t \in Threads : Return(t)
    \/ \E c \in Chans : LoopSearchDone(c)
    \/ \E c \in Chans : LoopChannelCreated(c)
    \/ LoopDisconnect
    \/ \E s \in {"ok", "err"} : PeerAnswer(s)
    \/ LoopHandleReply

SpecLoop == Init /\ [][NextLoop]_vars

(***************************************************************************)
(* Operations on value handles                                             *)
(***************************************************************************)
MHandles == {h \in DOMAIN handles : h.kind = "M"}
IHandles == {h \in DOMAIN handles : h.kind = "I"}

\* room for one more handle / one more tree
HandleRoom == BagCardinality(handles) < MaxHandles
TreeRoom == \E t \in TreeIds : ~Live(t, trees)

\* Bound on the program using the values: it fills a value in while it holds
\* a single handle, and copies, clones, freezes and thaws it afterwards
Building == BagCardinality(handles) = 1

DataCommit(r) ==
    /\ handles' = r.handles
    /\ trees' = r.trees
    /\ raised' = r.raised
    /\ UNCHANGED <<clientVars, loopVars, valueCall, arrays, monVars>>

\* a handle is copied (the copy shares the tree)
CopyHandle(h) ==
    /\ raised # "fault"
    /\ HandleRoom
    /\ DataCommit(Outcome(handles (+) SetToBag({h}), trees, "none"))

\* a handle is destroyed
DropHandle(h) ==
    /\ raised # "fault"
    /\ LET r == release(h, handles, trees)
       IN DataCommit(Outcome(r.handles, r.trees, "none"))

\* traverse() by a member name: the handle moves to descendant j of its
\* Struct cell
TraverseDown(h, j) ==
    /\ raised # "fault"
    /\ descAt(DescOf(h, trees)).code = "Struct"
    /\ j \in 1..(descAt(DescOf(h, trees)).size - 1)
    /\ DataCommit(Outcome(retarget(h, [h EXCEPT !.idx = h.idx + j], handles),
                          trees, "none"))

\* traverse() by "<": the handle moves to the enclosing Struct; at the top of
\* the tree it becomes empty
TraverseUp(h) ==
    /\ raised # "fault"
    /\ IF h.idx = 0
       THEN LET r == release(h, handles, trees)
            IN DataCommit(Outcome(r.handles, r.trees, "none"))
       ELSE DataCommit(Outcome(
                retarget(h, [h EXCEPT !.idx = h.idx - descAt(DescOf(h, trees)).parent_index],
                         handles),
                trees, "none"))

\* a scalar is written through an MValue
CopyIn(h, v) ==
    /\ raised # "fault"
    /\ Building
    /\ h.kind = "M"
    /\ StoreCode(DescOf(h, trees)) = "Integer"
    /\ DataCommit(Outcome(handles,
                          [trees EXCEPT ![h.tree] = copyIn(trees[h.tree], h.idx, v)],
                          "none"))

Mark(h, v) ==
    /\ raised # "fault"
    /\ Building
    /\ h.kind = "M"
    /\ DataCommit(Outcome(handles,
                          [trees EXCEPT ![h.tree] = mark(trees[h.tree], h.idx, v)],
                          "none"))

\* unmark(); a write outside the tree's cells either kills the process or
\* lands in memory the model does not hold
Unmark(h, parents, children) ==
    /\ raised # "fault"
    /\ Building
    /\ h.kind = "M"
    /\ LET r == unmark(trees[h.tree], h.idx, parents, children)
       IN \E killed \in BOOLEAN :
            /\ killed => r.fault
            /\ DataCommit(Outcome(handles, [trees EXCEPT ![h.tree] = r.tree],
                                  IF killed THEN "fault" ELSE "none"))

Freeze(h) ==
    /\ raised # "fault"
    /\ h.kind = "M"
    /\ DataCommit(freeze(h, handles, trees))

Thaw(h) ==
    /\ raised # "fault"
    /\ h.kind = "I"
    /\ UseCount(h.tree, handles) > 1 => HandleRoom /\ TreeRoom
    /\ DataCommit(thaw(h, handles, trees))

Clone(h) ==
    /\ raised # "fault"
    /\ HandleRoom
    /\ TreeRoom
    /\ DataCommit(clone(h, handles, trees))

NextData ==
    \/ \E h \in DOMAIN handles : CopyHandle(h)
    \/ \E h \in DOMAIN handles : DropHandle(h)
    \/ \E h \in DOMAIN handles, j \in 1..(Len(FieldDescs) - 1) : TraverseDown(h, j)
    \/ \E h \in DOMAIN handles : TraverseUp(h)
    \/ \E h \in DOMAIN handles, v \in Values : CopyIn(h, v)
    \/ \E h \in DOMAIN handles, v \in BOOLEAN : Mark(h, v)
    \/ \E h \in DOMAIN handles, p \in BOOLEAN, c \in BOOLEAN : Unmark(h, p, c)
    \/ \E h \in DOMAIN handles : Freeze(h)
    \/ \E h \in DOMAIN handles : Thaw(h)
    \/ \E h \in DOMAIN handles : Clone(h)

SpecData == Init /\ [][NextData]_vars

(***************************************************************************)
(* assign() between two values of the second type                          *)
(***************************************************************************)
\* a tree of the second type with the cells of set m valid and v in every
\* scalar cell
WideTree(m, v) ==
    [top |-> Top.Wide,
     valid |-> [k \in 0..(descAt(Top.Wide).size - 1) |-> k \in m],
     val |-> [k \in 0..(descAt(Top.Wide).size - 1) |->
                 IF StoreCode(Top.Wide + k) = "Null" THEN 0 ELSE v]]

\* the target (tree 1, an MValue, holding 0) and the source (tree 2, an
\* IValue, holding MaxVal), each with any set of cells marked
AssignInit ==
    /\ handles = SetToBag({Handle("M", 1, 0), Handle("I", 2, 0)})
    /\ \E m, n \in SUBSET (0..(descAt(Top.Wide).size - 1)) :
         trees = [t \in TreeIds |-> IF t = 1 THEN WideTree(m, 0) ELSE WideTree(n, MaxVal)]
    /\ raised = "none"
    /\ valueCall = NoCall
    /\ arrays = NoArrays
    /\ monitor = NoMonitor
    /\ subscription = NoSubscription

Assign(h, g) ==
    /\ raised # "fault"
    /\ h.kind = "M"
    /\ DataCommit(assignTo(h, g, handles, trees))

NextAssign ==
    \/ \E h \in DOMAIN handles, j \in 1..(Len(FieldDescs) - 1) : TraverseDown(h, j)
    \/ \E h \in DOMAIN handles : TraverseUp(h)
    \/ \E h, g \in DOMAIN handles : Assign(h, g)

InitAssign == ClientInit /\ AssignInit

SpecAssign == InitAssign /\ [][NextAssign]_vars

\* ----------------------------------------------------------- traverse
\* Path expressions are sequences of characters; positions count from 0 as
\* in std::string.
PathChars == {"<", "-", ">", "[", "]", "0", "y"}
Paths == UNION {[1..n -> PathChars] : n \in 1..MaxPath}

\* std::string::npos: larger than every position
Npos == 1000000

\* std::string::find_first_of(chars, pos)
findFirstOf(expr, chars, pos) ==
    LET hits == {i \in pos..(Len(expr) - 1) : expr[i + 1] \in chars}
    IN IF hits = {} THEN Npos ELSE CHOOSE i \in hits : \A j \in hits : i <= j

\* std::string::substr(pos, n), for pos <= size()
substr(expr, pos, n) ==
    SubSeq(expr, pos + 1, IF pos + n > Len(expr) THEN Len(expr) ELSE pos + n)

\* desc->mlookup.find(name): the mapped number, or -1 for end()
mfind(d, name) ==
    LET hits == {p \in descAt(d).mlookup : p[1] = name}
    IN IF hits = {} THEN -1 ELSE (CHOOSE p \in hits : TRUE)[2]

\* epicsParseULLong(str, &index, 0, nullptr) == 0: the whole string is a
\* number (the only digit of PathChars is 0, so the number is 0)
parsesULLong(str) == str # <<>> /\ \A i \in 1..Len(str) : str[i] = "0"

\* the empty handle (desc == nullptr)
NoHandle == [kind |-> "none", tree |-> 0, idx |-> 0]

\* a copy of the IValue a Compound cell or an array element holds: id is the
\* tree it points into (0: the held Value is empty)
held(kind, id) == IF id = 0 THEN NoHandle ELSE Handle(kind, id, 0)

\* the handle moved by off cells within its tree (store and desc both move)
moved(h, off) == Handle(h.kind, h.tree, h.idx + off)

\* One iteration of the loop of ValueBase::traverse(): c holds expr and the
\* locals pos and *this (c.h); n counts the iterations.
traverseBody(c, ts, modify) ==
    LET h == c.h
        d == DescOf(h, ts)
        code == descAt(d).code
        expr == c.expr
        pos == c.pos
        empty == [c EXCEPT !.h = NoHandle, !.n = @ + 1]
    IN IF expr[pos + 1] = "<"
       THEN IF h.idx # 0
            THEN [c EXCEPT !.h = moved(h, 0 - descAt(d).parent_index),
                           !.pos = pos + 1, !.n = @ + 1]
            ELSE empty
       ELSE IF code = "Struct"
       THEN LET sep == findFirstOf(expr, {"<", "[", "-"}, pos)
                it == mfind(d, substr(expr, pos, sep - pos))
            IN IF sep > 0 /\ it # -1
               THEN [c EXCEPT !.h = moved(h, it), !.pos = sep, !.n = @ + 1]
               ELSE empty
       ELSE IF modify
       THEN empty
       ELSE IF code \in {"Union", "Any"}
       THEN IF Len(expr) - pos >= 3 /\ expr[pos + 1] = "-" /\ expr[pos + 2] = ">"
            THEN LET p2 == pos + 2
                     fld == held(h.kind, ts[h.tree].val[h.idx])
                 IN IF code = "Any"
                    THEN [c EXCEPT !.h = fld, !.pos = p2, !.n = @ + 1]
                    ELSE LET sep == findFirstOf(expr, {"<", "[", "-", "."}, p2)
                             it == mfind(d, substr(expr, p2, sep - p2))
                         IN IF sep > 0 /\ it # -1
                            THEN IF fld # NoHandle /\ DescOf(fld, ts) = membersAt(d) + it
                                 THEN [c EXCEPT !.h = fld, !.pos = sep, !.n = @ + 1]
                                 ELSE empty
                            ELSE [c EXCEPT !.pos = p2, !.n = @ + 1]
            ELSE empty
       ELSE IF code \in {"StructA", "UnionA", "AnyA"}
       THEN LET sep == findFirstOf(expr, {"]"}, pos)
            IN IF /\ expr[pos + 1] = "["
                  /\ sep # Npos
                  /\ sep - pos >= 2
                  /\ parsesULLong(substr(expr, pos + 1, sep - 1 - pos))
               THEN LET varr == ts[h.tree].val[h.idx]
                        arr == varr.elems
                        index == 0
                    IN IF varr.otype = "Value" /\ index < Len(arr)
                       THEN [c EXCEPT !.h = held(h.kind, arr[index + 1]),
                                      !.pos = sep + 1, !.n = @ + 1]
                       ELSE empty
               ELSE empty
       ELSE empty

\* an iteration that ignores modify
traverseStepAsConst(c, ts) == traverseBody(c, ts, FALSE)

\* an iteration of traverse(expr, modify)
traverseStep(c, ts) == traverseBody(c, ts, c.modify)

\* the loop condition: desc && pos < expr.size()
traverseMore(c) == c.h # NoHandle /\ c.pos < Len(c.expr)

\* A value of one of the three types with a compound member y, the member
\* selected/filled/holding one element (tree 2) or not, and two handles of
\* one kind on it: at the top and at y.
TraverseInit ==
    /\ \E top \in {Top.Union, Top.Any, Top.Array}, full \in BOOLEAN, kind \in {"M", "I"} :
         /\ handles = SetToBag({Handle(kind, 1, 0), Handle(kind, 1, 1)})
         /\ trees = [t \in TreeIds |->
              IF t = 1
              THEN [NewTree(top) EXCEPT !.val[1] =
                      IF ~full THEN @
                      ELSE IF top = Top.Array THEN SharedArray("Value", <<2>>) ELSE 2]
              ELSE IF ~full THEN NoTree
              ELSE IF top = Top.Union THEN NewTree(Top.Union + 2) ELSE NewTree(Top.Plain)]
    /\ raised = "none"
    /\ valueCall = NoCall
    /\ arrays = NoArrays
    /\ monitor = NoMonitor
    /\ subscription = NoSubscription

\* operator[] / lookup() of an MValue (modify) or an IValue starts the scan
TraverseCall(h, expr) ==
    /\ valueCall = NoCall
    /\ valueCall' = [fn |-> "traverse", expr |-> expr, modify |-> (h.kind = "M"),
                pos |-> 0, h |-> h, from |-> h, n |-> 0]
    /\ UNCHANGED <<clientVars, loopVars, arrays, monVars, handles, trees, raised>>

\* an iteration that hands out a copy of the tree instead of sharing it
TraverseStepCopying ==
    /\ valueCall # NoCall
    /\ traverseMore(valueCall)
    /\ LET c == traverseStep(valueCall, trees)
       IN IF c.h # NoHandle /\ TreeRoom
          THEN LET t == FreeTree(trees)
               IN /\ trees' = [trees EXCEPT ![t] = trees[c.h.tree]]
                  /\ valueCall' = [c EXCEPT !.h.tree = t]
          ELSE /\ valueCall' = c
               /\ trees' = trees
    /\ UNCHANGED <<clientVars, loopVars, arrays, monVars, handles, raised>>

TraverseStep ==
    /\ valueCall # NoCall
    /\ traverseMore(valueCall)
    /\ valueCall' = traverseStep(valueCall, trees)
    /\ UNCHANGED <<clientVars, loopVars, arrays, monVars, handles, trees, raised>>

\* the scan is over; the caller drops the handle it got
TraverseReturn ==
    /\ valueCall # NoCall
    /\ ~traverseMore(valueCall)
    /\ valueCall' = NoCall
    /\ UNCHANGED <<clientVars, loopVars, arrays, monVars, handles, trees, raised>>

NextTraverse ==
    \/ valueCall = NoCall /\ \E h \in DOMAIN handles, expr \in Paths : TraverseCall(h, expr)
    \/ TraverseStep
    \/ TraverseReturn

InitTraverse == ClientInit /\ TraverseInit

SpecTraverse == InitTraverse /\ [][NextTraverse]_vars

\* ------------------------------------------------- copyOut and copyIn
\* Scalars: an Integer or UInteger is its number, a Real is the number of
\* halves it holds (3 stands for 1.5), a Bool is a BOOLEAN, a String a string.
\* A value handed in or out is tagged with the StoreType of the C++ object
\* behind the void pointer.
Typed(type, v) == [type |-> type, v |-> v]
\* nothing was written through the pointer
NoValue == Typed("Null", 0)

ScalarTypes == {"Real", "Integer", "UInteger", "Bool", "String"}
RealVals == {0, 2, 3}
Strings == {"0", "1", "1.5", "true", "false", "flase", "x"}

\* SB()<<n: the decimal digits of the integers the model prints
DecStr == <<"0", "1", "2", "3">>
printInt(n) == DecStr[n + 1]
printReal(r) == IF r % 2 = 0 THEN DecStr[(r \div 2) + 1] ELSE DecStr[(r \div 2) + 1] \o ".5"

\* epicsParseInt64(), epicsParseUInt64(), epicsParseDouble(): the number the
\* whole string denotes, or -1 where they return an error
epicsParseInt64(str) ==
    IF \E n \in 0..3 : printInt(n) = str THEN CHOOSE n \in 0..3 : printInt(n) = str ELSE -1
epicsParseUInt64(str) == epicsParseInt64(str)
epicsParseDouble(str) ==
    IF \E r \in 0..7 : printReal(r) = str THEN CHOOSE r \in 0..7 : printReal(r) = str ELSE -1

\* copyOutScalar<Src>(src, ptr, type) with Src the C++ type of StoreType st:
\* what is written through ptr (NoValue where it returns false)
copyOutScalar(st, src, type) ==
    CASE type = "Real" -> Typed("Real", IF st = "Real" THEN src ELSE 2 * src)
      [] type = "Integer" -> Typed("Integer", IF st = "Real" THEN src \div 2 ELSE src)
      [] type = "UInteger" -> Typed("UInteger", IF st = "Real" THEN src \div 2 ELSE src)
      [] type = "Bool" -> Typed("Bool", src # 0)
      [] type = "String" -> Typed("String", IF st = "Real" THEN printReal(src) ELSE printInt(src))
      [] OTHER -> NoValue

\* how copyOut() ends: it returns having written out, or it throws
Wrote(out) == [raised |-> "none", out |-> out]
Threw(e) == [raised |-> e, out |-> NoValue]

\* case StoreType::String of copyOut(): the cases Integer, UInteger, Real
\* and Bool have no break and no return on a failed parse, so control falls
\* into the next case
copyOutString(src, type) ==
    LET i == epicsParseInt64(src)
        u == epicsParseUInt64(src)
        r == epicsParseDouble(src)
    IN IF type = "String" THEN Wrote(Typed("String", src))
       ELSE IF type \notin {"Integer", "UInteger", "Real", "Bool"} THEN Threw("NoConvert")
       ELSE IF type = "Integer" /\ i # -1 THEN Wrote(Typed("Integer", i))
       ELSE IF type \in {"Integer", "UInteger"} /\ u # -1 THEN Wrote(Typed("UInteger", u))
       ELSE IF type \in {"Integer", "UInteger", "Real"} /\ r # -1 THEN Wrote(Typed("Real", r))
       ELSE IF src = "true" THEN Wrote(Typed("Bool", TRUE))
       ELSE IF src = "flase" THEN Wrote(Typed("Bool", FALSE))
       ELSE Threw("NoConvert")

\* the switch of ValueBase::copyOut() for a cell of StoreType code holding src
RECURSIVE copyOutCell(_, _, _, _)
copyOutCell(code, src, type, ts) ==
    CASE code \in {"Real", "Integer", "UInteger"} ->
            LET out == copyOutScalar(code, src, type)
            IN IF out.type # "Null" THEN Wrote(out) ELSE Threw("NoConvert")
      [] code = "Bool" ->
            CASE type = "Bool" -> Wrote(Typed("Bool", src))
              [] type \in {"Integer", "UInteger"} -> Wrote(Typed("UInteger", IF src THEN 1 ELSE 0))
              [] type = "Real" -> Wrote(Typed("Real", IF src THEN 2 ELSE 0))
              [] type = "String" -> Wrote(Typed("String", IF src THEN "true" ELSE "false"))
              [] OTHER -> Threw("NoConvert")
      [] code = "String" -> copyOutString(src, type)
      [] code = "Array" ->
            IF type = "Array" THEN Wrote(Typed("Array", src)) ELSE Threw("NoConvert")
      [] code = "Compound" ->
            IF type = "Compound" THEN Wrote(Typed("Compound", src))
            ELSE IF src # 0
            THEN copyOutCell(StoreCode(ts[src].top), ts[src].val[0], type, ts)
            ELSE Threw("NoConvert")
      [] OTHER -> Threw("NoConvert")

\* ValueBase::copyOut(ptr, type)
copyOut(h, type, ts) ==
    IF h = NoHandle THEN Threw("NoField")
    ELSE copyOutCell(StoreCode(DescOf(h, ts)), ts[h.tree].val[h.idx], type, ts)

\* a parse that stores what it has read also when it reports an error
parseScalarClobbering(st, dest, inp) ==
    LET p == epicsParseDouble(inp)
    IN [ok |-> p # -1 /\ (st = "Real" \/ p % 2 = 0),
        dest |-> IF p # -1 THEN (IF st = "Real" THEN p ELSE p \div 2) ELSE 0]

\* parseScalar(dest, inp) for dest of StoreType st
parseScalar(st, dest, inp) ==
    LET p == CASE st = "Real" -> epicsParseDouble(inp)
               [] st = "Integer" -> epicsParseInt64(inp)
               [] OTHER -> epicsParseUInt64(inp)
    IN [ok |-> p # -1, dest |-> IF p # -1 THEN p ELSE dest]

\* copyInScalar<Dest>(dest, ptr, type) with Dest the C++ type of StoreType st
copyInScalar(st, dest, src) ==
    CASE src.type = "Real" ->
            [ok |-> TRUE, dest |-> IF st = "Real" THEN src.v ELSE src.v \div 2]
      [] src.type \in {"Integer", "UInteger"} ->
            [ok |-> TRUE, dest |-> IF st = "Real" THEN 2 * src.v ELSE src.v]
      [] src.type = "Bool" ->
            [ok |-> TRUE, dest |-> IF ~src.v THEN 0 ELSE IF st = "Real" THEN 2 ELSE 1]
      [] src.type = "String" -> parseScalar(st, dest, src.v)
      [] OTHER -> [ok |-> FALSE, dest |-> dest]

\* uint8_t(desc->code.code)==uint8_t(src.original_type()): the TypeCode of an
\* array of scalars and the ArrayType of its elements are the same number
sameCode(code, otype) == code = "Int32A" /\ otype = "Int32"

\* an array write that does not look at the elements of a Value array
copyInArrayUnchecked(d, dest, src, ts) ==
    IF src.otype = "Null" \/ src.elems = <<>>
    THEN [raised |-> "none", val |-> NullArray]
    ELSE IF \/ src.otype = "Value" /\ KindOf(descAt(d).code) = "Compound"
            \/ src.otype # "Value" /\ sameCode(descAt(d).code, src.otype)
    THEN [raised |-> "none", val |-> src]
    ELSE [raised |-> "NoConvert", val |-> dest]

\* case StoreType::Array of copyIn(): what the cell holds afterwards, or
\* NoConvert
copyInArray(d, dest, src, ts) ==
    LET code == descAt(d).code
    IN IF src.otype = "Null" \/ src.elems = <<>>
       THEN [raised |-> "none", val |-> NullArray]
       ELSE IF src.otype = "Value" /\ KindOf(code) = "Compound"
       THEN IF /\ code # "AnyA"
               /\ \E i \in 1..Len(src.elems) :
                    src.elems[i] # 0 /\ ts[src.elems[i]].top # membersAt(d)
            THEN [raised |-> "NoConvert", val |-> dest]
            ELSE [raised |-> "none", val |-> src]
       ELSE IF src.otype # "Value" /\ sameCode(code, src.otype)
       THEN [raised |-> "none", val |-> src]
       ELSE [raised |-> "NoConvert", val |-> dest]

\* the switch of MValue::copyIn() for the cell of desc d holding dest
copyInCell(d, dest, src, ts) ==
    LET code == StoreCode(d)
        Stored(v) == [raised |-> "none", val |-> v]
        NoConvert == [raised |-> "NoConvert", val |-> dest]
    IN CASE code \in {"Real", "Integer", "UInteger"} ->
               LET r == copyInScalar(code, dest, src)
               IN [raised |-> IF r.ok THEN "none" ELSE "NoConvert", val |-> r.dest]
         [] code = "Bool" ->
               CASE src.type = "Bool" -> Stored(src.v)
                 [] src.type \in {"Integer", "UInteger"} -> Stored(src.v # 0)
                 [] src.type = "String" ->
                       IF src.v = "true" THEN Stored(TRUE)
                       ELSE IF src.v = "false" THEN Stored(FALSE)
                       ELSE NoConvert
                 [] OTHER -> NoConvert
         [] code = "String" ->
               CASE src.type = "String" -> Stored(src.v)
                 [] src.type \in {"Integer", "UInteger"} -> Stored(printInt(src.v))
                 [] src.type = "Real" -> Stored(printReal(src.v))
                 [] src.type = "Bool" -> Stored(IF src.v THEN "true" ELSE "false")
                 [] OTHER -> NoConvert
         [] code = "Array" ->
               IF src.type = "Array" THEN copyInArray(d, dest, src.v, ts) ELSE NoConvert
         [] code = "Compound" ->
               IF descAt(d).code = "Any" /\ src.type = "Compound"
               THEN Stored(src.v)
               ELSE NoConvert
         [] OTHER -> NoConvert

\* MValue::copyIn(ptr, type): the trees afterwards and what was thrown
copyInAs(h, src, ts) ==
    IF h = NoHandle THEN [raised |-> "NoField", trees |-> ts]
    ELSE LET r == copyInCell(DescOf(h, ts), ts[h.tree].val[h.idx], src, ts)
             stored == [ts[h.tree] EXCEPT !.val[h.idx] = r.val]
         IN [raised |-> r.raised,
             trees |-> [ts EXCEPT ![h.tree] =
                           IF r.raised = "none"
                           THEN mark(stored, h.idx, DefaultMark)
                           ELSE stored]]

\* the arrays handed to copyIn(): untyped, typed and empty, of int32, of
\* double, and of Values that are empty (0) or point into tree 2
ArraySources ==
    {NullArray, SharedArray("Int32", <<>>), SharedArray("Int32", <<1>>),
     SharedArray("Double", <<1>>)}
    \cup {SharedArray("Value", e) : e \in UNION {[1..n -> {0, 2}] : n \in 0..2}}

\* the values of StoreType type handed to copyIn()
Sources(type) ==
    CASE type = "Real" -> RealVals
      [] type \in {"Integer", "UInteger"} -> Values
      [] type = "Bool" -> BOOLEAN
      [] type = "String" -> Strings
      [] type = "Array" -> ArraySources
      [] type = "Compound" -> {0, 2}
      [] OTHER -> {0}

StoreTypes == ScalarTypes \cup {"Array", "Compound", "Null"}

\* the types struct { T y; }, one for each T, and the types of tree 2: a
\* struct, a union and an int64
ConvertTops ==
    {Top.Plain, Top.Union, Top.Any, Top.Array, Top.Real, Top.UInt, Top.Bool, Top.String,
     Top.Int32A, Top.UnionA, Top.AnyA}
ElementTops == {Top.Plain, Top.Union + 1, Top.Union + 2}

\* an MValue of one of the types with handles on the top and on the member,
\* and an IValue of another type (tree 2)
ConvertInit ==
    /\ handles = SetToBag({Handle("M", 1, 0), Handle("M", 1, 1), Handle("I", 2, 0)})
    /\ \E top \in ConvertTops, elem \in ElementTops :
         trees = [t \in TreeIds |-> IF t = 1 THEN NewTree(top) ELSE NewTree(elem)]
    /\ raised = "none"
    /\ valueCall = NoCall
    /\ arrays = NoArrays
    /\ monitor = NoMonitor
    /\ subscription = NoSubscription

\* m.copyIn(ptr, type), or m.tryCopyIn(ptr, type) with try
CopyInAs(h, type, v, try) ==
    /\ valueCall = NoCall
    /\ LET r == copyInAs(h, Typed(type, v), trees)
       IN /\ trees' = r.trees
          /\ raised' = IF try THEN "none" ELSE r.raised
          /\ valueCall' = [fn |-> "copyIn", try |-> try, h |-> h,
                           ok |-> (r.raised = "none")]
    /\ UNCHANGED <<clientVars, loopVars, arrays, monVars, handles>>

\* v.copyOut(ptr, type)
CopyOutAs(h, type) ==
    /\ valueCall = NoCall
    /\ LET r == copyOut(h, type, trees)
       IN /\ raised' = r.raised
          /\ valueCall' = [fn |-> "copyOut", h |-> h, type |-> type, out |-> r.out]
    /\ UNCHANGED <<clientVars, loopVars, arrays, monVars, handles, trees>>

\* the caller goes on (after catching what was thrown)
ConvertReturn ==
    /\ valueCall # NoCall
    /\ valueCall' = NoCall
    /\ raised' = "none"
    /\ UNCHANGED <<clientVars, loopVars, arrays, monVars, handles, trees>>

NextConvert ==
    \/ \E h \in MHandles \cup {NoHandle}, type \in StoreTypes, try \in BOOLEAN :
         \E v \in Sources(type) : CopyInAs(h, type, v, try)
    \/ \E h \in DOMAIN handles \cup {NoHandle}, type \in StoreTypes : CopyOutAs(h, type)
    \/ ConvertReturn

InitConvert == ClientInit /\ ConvertInit

SpecConvert == InitConvert /\ [][NextConvert]_vars

\* ------------------------------------------------------- shared_array
\* sizeof(int32_t)
SizeofInt32 == 4

\* _data.use_count()
useCount(as, data) == Cardinality({a \in DOMAIN as : as[a].data = data})

\* a buffer no array owns
FreeBuffer(as) == CHOOSE b \in 1..MaxArrays : useCount(as, b) = 0

\* a test that takes every array for solely owned
uniqueAlways(as, a) == TRUE

\* sa_base::unique()
unique(as, a) == as[a].data = 0 \/ useCount(as, as[a].data) <= 1

\* sa_base::clear(), and shared_array<void>::clear() which also resets _type
clear(arr) == [arr EXCEPT !.data = 0, !.size = 0, !.type = "Null"]

\* shared_array::freeze() of slot a with the result stored in slot b
freezeArray(as, a, b) ==
    IF ~unique(as, a)
    THEN [raised |-> "logic_error", arrays |-> as]
    ELSE LET ret == [as[a] EXCEPT !.const = TRUE]
         IN [raised |-> "none", arrays |-> [as EXCEPT ![b] = ret, ![a] = clear(as[a])]]

\* a reference to element i of a buffer; NoRef where nothing is returned
Ref(data, i) == [data |-> data, i |-> i]
NoRef == Ref(0, -1)

\* shared_array::at(i): how the call can end.  With i == _size the test
\* 'i>this->_size' lets the call through and operator[] forms a reference
\* past the last element (undefined behaviour: the process is killed, or
\* the caller gets the dangling reference)
at(arr, i) ==
    IF i > arr.size
    THEN {[raised |-> "out_of_range", ret |-> NoRef]}
    ELSE IF i < arr.size
    THEN {[raised |-> "none", ret |-> Ref(arr.data, i)]}
    ELSE {[raised |-> "fault", ret |-> NoRef], [raised |-> "none", ret |-> Ref(arr.data, i)]}

\* a cast to void that forgets the element type
castToVoidUntagged(arr) == Array(arr.data, arr.size * SizeofInt32, "void", arr.const, "Null")

\* shared_array<E>::castTo<void>(): the array returned (the void variant's
\* alias constructor captures the code of the element type)
castToVoid(arr) == Array(arr.data, arr.size * SizeofInt32, "void", arr.const, "Int32")

\* shared_array<void>::castTo<int32_t>(): the array returned
castToTyped(arr) == Array(arr.data, arr.size \div SizeofInt32, "Int32", arr.const, "Null")

\* the copy constructor (defaulted): the new array
copyArray(arr) == arr

\* the move constructor: what the new array and the source hold
moveArray(arr) == [to |-> arr, from |-> clear(arr)]

\* no array object yet
ArrayInit ==
    /\ handles = EmptyBag
    /\ trees = [t \in TreeIds |-> NoTree]
    /\ raised = "none"
    /\ valueCall = NoCall
    /\ arrays = NoArrays
    /\ monitor = NoMonitor
    /\ subscription = NoSubscription

ArrayFrame == UNCHANGED <<clientVars, loopVars, handles, trees, monVars>>

\* shared_array<int32_t> a(n)
ArrayNew(a, n) ==
    /\ valueCall = NoCall
    /\ arrays[a] = NoArray
    /\ arrays' = [arrays EXCEPT ![a] = Array(FreeBuffer(arrays), n, "Int32", FALSE, "Null")]
    /\ UNCHANGED <<raised, valueCall>>
    /\ ArrayFrame

\* shared_array<int32_t> a, or shared_array<void> a
ArrayDefault(a, elem) ==
    /\ valueCall = NoCall
    /\ arrays[a] = NoArray
    /\ arrays' = [arrays EXCEPT ![a] = Array(0, 0, elem, FALSE, "Null")]
    /\ UNCHANGED <<raised, valueCall>>
    /\ ArrayFrame

\* auto b(a)
ArrayCopy(a, b) ==
    /\ valueCall = NoCall
    /\ arrays[a] # NoArray
    /\ arrays[b] = NoArray
    /\ arrays' = [arrays EXCEPT ![b] = copyArray(arrays[a])]
    /\ UNCHANGED <<raised, valueCall>>
    /\ ArrayFrame

\* auto b(a.castTo<void>()) of a non-void a
ArrayCastToVoid(a, b) ==
    /\ valueCall = NoCall
    /\ arrays[a].elem = "Int32"
    /\ arrays[b] = NoArray
    /\ arrays' = [arrays EXCEPT ![b] = castToVoid(arrays[a])]
    /\ valueCall' = [fn |-> "castTo", a |-> a, b |-> b]
    /\ UNCHANGED raised
    /\ ArrayFrame

\* auto b(a.castTo<int32_t>()) of a void a
ArrayCastToTyped(a, b) ==
    /\ valueCall = NoCall
    /\ arrays[a].elem = "void"
    /\ arrays[b] = NoArray
    /\ arrays' = [arrays EXCEPT ![b] = castToTyped(arrays[a])]
    /\ UNCHANGED <<raised, valueCall>>
    /\ ArrayFrame

\* auto b(std::move(a))
ArrayMove(a, b) ==
    /\ valueCall = NoCall
    /\ arrays[a] # NoArray
    /\ arrays[b] = NoArray
    /\ arrays' = [arrays EXCEPT ![b] = moveArray(arrays[a]).to,
                                ![a] = moveArray(arrays[a]).from]
    /\ UNCHANGED <<raised, valueCall>>
    /\ ArrayFrame

\* a.at(i) of a non-void a
ArrayAt(a, i) ==
    /\ valueCall = NoCall
    /\ arrays[a].elem = "Int32"
    /\ \E r \in at(arrays[a], i) :
         /\ raised' = r.raised
         /\ valueCall' = [fn |-> "at", a |-> a, i |-> i, ret |-> r.ret]
    /\ UNCHANGED arrays
    /\ ArrayFrame

\* the array object of slot a goes out of scope
ArrayDrop(a) ==
    /\ valueCall = NoCall
    /\ arrays[a] # NoArray
    /\ arrays' = [arrays EXCEPT ![a] = NoArray]
    /\ UNCHANGED <<raised, valueCall>>
    /\ ArrayFrame

\* auto b(a.freeze())
ArrayFreeze(a, b) ==
    /\ valueCall = NoCall
    /\ arrays[a] # NoArray
    /\ arrays[b] = NoArray
    /\ LET r == freezeArray(arrays, a, b)
       IN /\ arrays' = r.arrays
          /\ raised' = r.raised
    /\ valueCall' = [fn |-> "freeze", a |-> a, b |-> b]
    /\ ArrayFrame

\* the caller goes on (after catching what was thrown)
ArrayReturn ==
    /\ valueCall # NoCall
    /\ valueCall' = NoCall
    /\ raised' = "none"
    /\ UNCHANGED arrays
    /\ ArrayFrame

NextArray ==
    \/ \E a \in 1..MaxArrays, n \in 0..MaxLen : ArrayNew(a, n)
    \/ \E a \in 1..MaxArrays, elem \in {"Int32", "void"} : ArrayDefault(a, elem)
    \/ \E a, b \in 1..MaxArrays : ArrayCopy(a, b)
    \/ \E a, b \in 1..MaxArrays : ArrayCastToVoid(a, b)
    \/ \E a, b \in 1..MaxArrays : ArrayCastToTyped(a, b)
    \/ \E a, b \in 1..MaxArrays : ArrayMove(a, b)
    \/ \E a \in 1..MaxArrays, i \in 0..(MaxLen + 1) : ArrayAt(a, i)
    \/ \E a \in 1..MaxArrays : ArrayDrop(a)
    \/ \E a, b \in 1..MaxArrays : ArrayFreeze(a, b)
    \/ ArrayReturn

InitArray == ClientInit /\ ArrayInit

SpecArray == InitArray /\ [][NextArray]_vars

(***************************************************************************)
(* MonitorControlOp: the queue of a subscription in the server             *)
(***************************************************************************)
MaxLimit == 2
MaxPosts == 4

\* MonitorControlOp's nFree(): the room left in the queue
nFree(m) == m.limitQueue - Len(m.queue)

\* an update "squashed" to the last element of the queue: the cells it
\* marks replace those of the element
squash(last, val) == [c \in Cells |-> IF val[c] # 0 THEN val[c] ELSE last[c]]

\* a queue to which every update is appended
enqueueAlways(q, val, maybe, force, limit) == Append(q, val)

\* what doPost() makes of the queue
enqueue(q, val, maybe, force, limit) ==
    IF force \/ Len(q) < limit
    THEN Append(q, val)
    ELSE IF maybe \/ q = <<>>
    THEN q
    ELSE [q EXCEPT ![Len(q)] = squash(q[Len(q)], val)]

\* callbacks invoked whenever their condition holds
marksLevel(m) ==
    [m |-> [m EXCEPT !.atLow = nFree(m) <= m.low, !.atHigh = nFree(m) > m.high],
     fired |-> (IF nFree(m) <= m.low THEN {"onLowMark"} ELSE {})
               \cup (IF nFree(m) > m.high THEN {"onHighMark"} ELSE {})]

\* the flow control levels looked at after a change: the callbacks to
\* invoke, and the subscription remembering what it saw
marks(m) ==
    LET lowNow == nFree(m) <= m.low
        highNow == nFree(m) > m.high
    IN [m |-> [m EXCEPT !.atLow = lowNow, !.atHigh = highNow],
        fired |-> (IF lowNow /\ ~m.atLow THEN {"onLowMark"} ELSE {})
                  \cup (IF highNow /\ ~m.atHigh THEN {"onHighMark"} ELSE {})]

\* doPost(val, maybe, force): the subscription after it, the callbacks
\* invoked and the value returned
doPost(m, val, maybe, force) ==
    LET r == marks([m EXCEPT !.queue = enqueue(@, val, maybe, force, m.limitQueue),
                             !.posts = @ + 1,
                             !.onlyPost = @ /\ ~maybe /\ ~force])
    IN [m |-> r.m, fired |-> r.fired, ret |-> nFree(r.m) > 0]

\* a subscription set up with a queue limit; the queue is empty
MonitorInit ==
    /\ handles = EmptyBag
    /\ trees = [t \in TreeIds |-> NoTree]
    /\ raised = "none"
    /\ valueCall = NoCall
    /\ arrays = NoArrays
    /\ \E limit \in 1..MaxLimit :
         monitor = Monitor(<<>>, limit, 0, 0, FALSE, TRUE, 0, TRUE)
    /\ subscription = NoSubscription

MonitorFrame == UNCHANGED <<clientVars, loopVars, handles, trees, raised, arrays, subscription>>

\* setWatermarks(low, high), before the first update
SetWatermarks(low, high) ==
    /\ monitor.posts = 0
    /\ LET r == marks([monitor EXCEPT !.low = low, !.high = high])
       IN /\ monitor' = r.m
          /\ valueCall' = [fn |-> "setWatermarks", fired |-> r.fired]
    /\ MonitorFrame

\* the three ways to post the update that marks the cells of marked
MonitorPost(fn, marked, maybe, force) ==
    /\ monitor.posts < MaxPosts
    /\ LET val == Update(monitor.posts + 1, marked)
           r == doPost(monitor, val, maybe, force)
       IN /\ monitor' = r.m
          /\ valueCall' = [fn |-> fn, val |-> val, ret |-> r.ret, fired |-> r.fired]
    /\ MonitorFrame

\* the first update of the queue goes to the subscriber, whose pop()
\* returns it
MonitorSend ==
    /\ monitor.queue # <<>>
    /\ LET r == marks([monitor EXCEPT !.queue = Tail(@), !.onlyPost = FALSE])
       IN /\ monitor' = r.m
          /\ valueCall' = [fn |-> "pop", val |-> Head(monitor.queue), fired |-> r.fired]
    /\ MonitorFrame

MonitorReturn ==
    /\ valueCall # NoCall
    /\ valueCall' = NoCall
    /\ UNCHANGED monitor
    /\ MonitorFrame

NextMonitor ==
    \/ valueCall = NoCall /\ \E low, high \in 0..MaxLimit : SetWatermarks(low, high)
    \/ valueCall = NoCall /\ \E marked \in (SUBSET Cells) \ {{}} : MonitorPost("post", marked, FALSE, FALSE)
    \/ valueCall = NoCall /\ \E marked \in (SUBSET Cells) \ {{}} : MonitorPost("tryPost", marked, TRUE, FALSE)
    \/ valueCall = NoCall /\ \E marked \in (SUBSET Cells) \ {{}} : MonitorPost("forcePost", marked, FALSE, TRUE)
    \/ valueCall = NoCall /\ MonitorSend
    \/ MonitorReturn

InitMonitor == ClientInit /\ MonitorInit

SpecMonitor == InitMonitor /\ [][NextMonitor]_vars

(***************************************************************************)
(* A client's Subscription to a SharedPV (TestLifeCycle)                   *)
(***************************************************************************)
MaxConns == 2

\* the entries of the client's queue, which pop() returns or throws
ConnectedEvent == [kind |-> "Connected"]
DisconnectEvent == [kind |-> "Disconnect"]
Data(val) == [kind |-> "data", val |-> val]

\* the newest post() that marked a cell of the update
newest(val) ==
    CHOOSE n \in 0..MaxPosts :
        (\E c \in Cells : val[c] = n) /\ (\A c \in Cells : val[c] <= n)

\* a connection lost without an event for the client
lostConnectionSilent(sub) == [sub EXCEPT !.conn = FALSE]

\* the subscription's channel leaves Active: the client queues Disconnect
lostConnection(sub) ==
    [sub EXCEPT !.conn = FALSE, !.events = Append(@, DisconnectEvent)]

\* cli.monitor(name).maskConnected(false).maskDisconnected(false).exec(),
\* with the server not started and the PV not open
SubscriptionInit ==
    /\ handles = EmptyBag
    /\ trees = [t \in TreeIds |-> NoTree]
    /\ raised = "none"
    /\ valueCall = NoCall
    /\ arrays = NoArrays
    /\ monitor = NoMonitor
    /\ \E limit \in 1..MaxLimit :
         subscription = [serv |-> FALSE, pv |-> FALSE, conn |-> FALSE, conns |-> 0,
                         limit |-> limit, serial |-> 0, current |-> Update(0, {}),
                         first |-> [k \in 1..MaxConns |-> Update(0, {})],
                         squashed |-> [k \in 1..MaxConns |-> FALSE],
                         events |-> <<>>, phase |-> "none", seen |-> 0, last |-> 0]

SubscriptionFrame == UNCHANGED <<clientVars, loopVars, handles, trees, raised, arrays>>

\* serv.start()
ServStart ==
    /\ ~subscription.serv
    /\ subscription' = [subscription EXCEPT !.serv = TRUE]
    /\ UNCHANGED <<monitor, valueCall>>
    /\ SubscriptionFrame

\* mbox.open(initial): the PV holds a value with every cell marked
PvOpen ==
    /\ ~subscription.pv
    /\ subscription.serial < MaxPosts
    /\ subscription' = [subscription EXCEPT !.pv = TRUE, !.serial = @ + 1,
                                            !.current = Update(subscription.serial + 1, Cells)]
    /\ UNCHANGED <<monitor, valueCall>>
    /\ SubscriptionFrame

\* the channel becomes Active and the server sets the subscription up: the
\* client queues Connected, the server queues the PV's value
SubConnect ==
    /\ subscription.serv /\ subscription.pv /\ ~subscription.conn
    /\ subscription.conns < MaxConns
    /\ monitor' = doPost(Monitor(<<>>, subscription.limit, 0, 0, FALSE, TRUE, 0, TRUE),
                         subscription.current, FALSE, FALSE).m
    /\ subscription' = [subscription EXCEPT !.conn = TRUE, !.conns = @ + 1,
                                            !.first[subscription.conns + 1] = subscription.current,
                                            !.events = Append(@, ConnectedEvent)]
    /\ UNCHANGED valueCall
    /\ SubscriptionFrame

\* mbox.post(update): to the PV's value and to the subscription's queue
PvPost(marked) ==
    /\ subscription.pv
    /\ subscription.serial < MaxPosts
    /\ LET val == Update(subscription.serial + 1, marked)
       IN /\ subscription' =
                [subscription EXCEPT !.serial = @ + 1,
                                     !.current = squash(@, val),
                                     !.squashed =
                                         IF subscription.conn /\ nFree(monitor) <= 0
                                         THEN [@ EXCEPT ![subscription.conns] = TRUE]
                                         ELSE @]
          /\ monitor' = IF subscription.conn THEN doPost(monitor, val, FALSE, FALSE).m
                        ELSE monitor
    /\ UNCHANGED valueCall
    /\ SubscriptionFrame

\* the server sends the first queued update; the client queues it
SubSend ==
    /\ subscription.conn
    /\ monitor.queue # <<>>
    /\ monitor' = marks([monitor EXCEPT !.queue = Tail(@)]).m
    /\ subscription' = [subscription EXCEPT !.events = Append(@, Data(Head(monitor.queue)))]
    /\ UNCHANGED valueCall
    /\ SubscriptionFrame

\* serv.stop()
ServStop ==
    /\ subscription.serv
    /\ subscription' = IF subscription.conn
                       THEN [lostConnection(subscription) EXCEPT !.serv = FALSE]
                       ELSE [subscription EXCEPT !.serv = FALSE]
    /\ monitor' = NoMonitor
    /\ UNCHANGED valueCall
    /\ SubscriptionFrame

\* mbox.close()
PvClose ==
    /\ subscription.pv
    /\ subscription' = IF subscription.conn
                       THEN [lostConnection(subscription) EXCEPT !.pv = FALSE]
                       ELSE [subscription EXCEPT !.pv = FALSE]
    /\ monitor' = NoMonitor
    /\ UNCHANGED valueCall
    /\ SubscriptionFrame

\* sub->pop(): the first entry of the client's queue, returned or thrown
SubPop ==
    /\ valueCall = NoCall
    /\ subscription.events # <<>>
    /\ LET ev == Head(subscription.events)
       IN /\ subscription' =
                [subscription EXCEPT !.events = Tail(@),
                                     !.phase = IF ev.kind = "data" THEN @ ELSE ev.kind,
                                     !.seen = IF ev = ConnectedEvent THEN @ + 1 ELSE @,
                                     !.last = IF ev.kind = "data" THEN newest(ev.val) ELSE 0]
          /\ valueCall' = [fn |-> "pop", ev |-> ev]
    /\ UNCHANGED monitor
    /\ SubscriptionFrame

SubReturn ==
    /\ valueCall # NoCall
    /\ valueCall' = NoCall
    /\ UNCHANGED monVars
    /\ SubscriptionFrame

NextSubscription ==
    \/ ServStart
    \/ PvOpen
    \/ SubConnect
    \/ \E marked \in (SUBSET Cells) \ {{}} : PvPost(marked)
    \/ SubSend
    \/ ServStop
    \/ PvClose
    \/ SubPop
    \/ SubReturn

InitSubscription == ClientInit /\ SubscriptionInit

SpecSubscription == InitSubscription /\ [][NextSubscription]_vars

(***************************************************************************)
(* Properties                                                              *)
(***************************************************************************)
\* the commands this step appended to the connection's transmit queue
Sent == IF Len(txLog') > Len(txLog)
        THEN SubSeq(txLog', Len(txLog) + 1, Len(txLog'))
        ELSE <<>>

\* a cancel() of operation o (explicit, or the destructor's) returns in
\* this step
CancelStep(o) ==
    \/ ~cancelled[o] /\ cancelled'[o]
    \/ pc[o] = "held" /\ pc'[o] = "gone"

\* handle_GET_FIELD() handles the reply at the head of rx in this step
ReplyStep ==
    /\ rx # <<>>
    /\ \/ connOpen' /\ rx' = Tail(rx)
       \/ connOpen /\ ~connOpen' /\ ~Head(rx).good
       \/ crashed = "none" /\ crashed' = "handle_GET_FIELD"

SeqCount(q, x) == Cardinality({k \in 1..Len(q) : q[k] = x})

\* C1: under any interleaving of exec, createOp, replies (duplicates
\* included), peer close, reconnect and cancel, the result callback of an
\* operation is invoked at most once.
C1_CallbackAtMostOnce == \A o \in Ops : calls[o] <= 1

\* an operation completed after a reconnect, and a second reply carrying
\* its ioid is waiting to be handled
C1_Witness ==
    \E o \in Ops :
        /\ calls[o] = 1
        /\ nDisc >= 1
        /\ rx # <<>>
        /\ Head(rx).good
        /\ Head(rx).ioid = ioid[o]

\* C2: once a cancel() of an operation (explicit, or by dropping the
\* handle) has returned, the operation is Done, stays Done, and its
\* callback is not invoked any more, whatever is handled later.
C2_CancelIsFinal ==
    [][\A o \in Ops :
         /\ cancelled'[o] => state'[o] = "Done"
         /\ cancelled[o] => calls'[o] = calls[o]]_vars

\* a Waiting operation was cancelled (its DESTROY_REQUEST is on the wire)
\* and a reply carrying its ioid is waiting to be handled
C2_Witness ==
    \E o \in Ops :
        /\ cancelled[o]
        /\ rx # <<>>
        /\ Head(rx).good
        /\ Head(rx).ioid = ioid[o]
        /\ \E k \in 1..Len(txLog) :
              txLog[k].cmd = "DESTROY_REQUEST" /\ txLog[k].ioid = ioid[o]

\* C3: a cancel and a reply for the same Waiting operation have two
\* outcomes.  Reply first: the callback runs exactly once, on a Waiting
\* operation that was not cancelled, and the later cancel sends nothing.
\* Cancel first: no callback had run, the ioid leaves opByIOID and stays out
\* of it while its DESTROY_REQUEST is on the connection, the callback is
\* never invoked, and a reply whose ioid is not in opByIOID is dropped
\* without any effect.
C3_CancelReplyRace ==
    [][/\ \A o \in Ops :
            /\ calls'[o] > calls[o] =>
                  /\ ReplyStep
                  /\ ~cancelled[o]
                  /\ state[o] = "Waiting"
                  /\ state'[o] = "Done"
                  /\ calls'[o] = 1
            /\ CancelStep(o) /\ calls[o] = 1 => Sent = <<>>
            /\ CancelStep(o) /\ state[o] = "Waiting" =>
                  /\ calls[o] = 0
                  /\ ioid[o] \notin DOMAIN opByIOID'
            /\ cancelled[o] => calls'[o] = calls[o]
       /\ \A k \in 1..Len(txLog') :
            txLog'[k].cmd = "DESTROY_REQUEST" =>
               txLog'[k].ioid \notin DOMAIN opByIOID'
       /\ (ReplyStep /\ Head(rx).good /\ Head(rx).ioid \notin DOMAIN opByIOID) =>
            /\ rx' = Tail(rx)
            /\ UNCHANGED <<opVars, chanVars, connOpen, opByIOID, nextIOID,
                           txLog, peerPos, pc, crashed, ghostVars>>]_vars

\* both outcomes on one connection: o got its reply and was cancelled
\* afterwards; p was cancelled first, after the peer had read its request,
\* and a reply carrying its ioid is waiting to be handled
C3_Witness ==
    \E o, p \in Ops :
        /\ o # p
        /\ nDisc = 0
        /\ calls[o] = 1 /\ cancelled[o]
        /\ calls[p] = 0 /\ cancelled[p]
        /\ \E k \in 1..Len(txLog) :
              /\ txLog[k] = GetFieldMsg(txLog[k].sid, ioid[p])
              /\ peerPos >= k
        /\ \E k \in 1..Len(txLog) :
              txLog[k].cmd = "DESTROY_REQUEST" /\ txLog[k].ioid = ioid[p]
        /\ rx # <<>> /\ Head(rx).good /\ Head(rx).ioid = ioid[p]

\* C4: cancel() is idempotent: a second and later cancel() of an operation
\* (the destructor's after an explicit one included) completes without
\* error and leaves what one cancel() leaves: state Done, no channel, no
\* callback, at most one DESTROY_REQUEST for the ioid on the connection.
C4_CancelIdempotent ==
    /\ crashed # "cancel"
    /\ \A o \in Ops :
          cancelled[o] => state[o] = "Done" /\ chan[o] = NoChan /\ ~done[o]
    /\ \A i \in Ioids :
          Cardinality({k \in 1..Len(txLog) :
                          txLog[k].cmd = "DESTROY_REQUEST" /\ txLog[k].ioid = i}) <= 1

\* C5: cancel() leaves the operation Done.  From Waiting it sends exactly
\* one DESTROY_REQUEST with the channel's sid and the operation's ioid and
\* erases the ioid from the connection's and the channel's opByIOID; from
\* Connecting or Done it sends nothing and erases nothing.
C5_CancelEffect ==
    [][\A o \in Ops : CancelStep(o) =>
         /\ state'[o] = "Done"
         /\ IF state[o] = "Waiting"
            THEN /\ Sent = <<DestroyMsg(sid[chan[o]], ioid[o])>>
                 /\ chState[chan[o]] = "Active"
                 /\ sid[chan[o]] # NoSid
                 /\ ioid[o] \in DOMAIN opByIOID
                 /\ opByIOID' = Erase(opByIOID, ioid[o])
                 /\ chanOps' = [chanOps EXCEPT ![chan[o]] = @ \ {ioid[o]}]
                 /\ ioid[o] \in chanOps[chan[o]]
            ELSE /\ txLog' = txLog
                 /\ opByIOID' = opByIOID
                 /\ chanOps' = chanOps]_vars

\* one operation was cancelled while Waiting on the last channel (its
\* DESTROY_REQUEST is the last command sent), another before it was ever
\* given an ioid
C5_Witness ==
    \E o, p \in Ops :
        /\ o # p
        /\ cancelled[o] /\ cancelled[p]
        /\ ioid[p] = NoIoid
        /\ txLog # <<>>
        /\ txLog[Len(txLog)] = DestroyMsg(MaxChans, ioid[o])
        /\ ioid[o] \notin DOMAIN opByIOID

\* Channel::createOperations() registers operation o and calls its
\* createOp() in this step
CreateOpCalled(o) == o \notin Range(opByIOID) /\ o \in Range(opByIOID')

C7_DisconnectEffect ==
    [][\A o \in Ops :
         /\ (connOpen /\ ~connOpen') =>
              IF state[o] = "Waiting"
              THEN /\ state'[o] = "Connecting"
                   /\ chan'[o] = chan[o]
                   /\ \A c \in Chans :
                        /\ SeqCount(pending[c], o) = 0
                        /\ SeqCount(pending'[c], o) = IF c = chan[o] THEN 1 ELSE 0
              ELSE /\ state'[o] = state[o]
                   /\ \A c \in Chans :
                        SeqCount(pending'[c], o) = SeqCount(pending[c], o)
         /\ (state[o] = "Waiting" /\ state'[o] = "Connecting") =>
              (connOpen /\ ~connOpen')]_vars

\* right after a connection loss: o was Waiting on the last channel and is
\* back in that channel's pending list as its only entry; p had been
\* registered, was Done when the connection went and is in no pending list
C7_Witness ==
    \E o, p \in Ops :
        /\ o # p
        /\ ~connOpen /\ nDisc >= 1
        /\ state[o] = "Connecting" /\ ioid[o] # NoIoid
        /\ chan[o] = MaxChans
        /\ pending[MaxChans] = <<o>>
        /\ state[p] = "Done" /\ ioid[p] # NoIoid /\ cancelled[p]
        /\ \A c \in Chans : p \notin Range(pending[c])

\* C9: an operation that was not cancelled and whose channel has never
\* been Active is Connecting: it was given no ioid, no command carries its
\* channel's sid, no callback ran and no result was stored.
C9_NoChannelNoProgress ==
    \A o \in Ops :
        (chan[o] # NoChan /\ ~everActive[chan[o]]) =>
            /\ state[o] = "Connecting"
            /\ ioid[o] = NoIoid
            /\ calls[o] = 0
            /\ result[o] = "none"
            /\ o \notin Range(opByIOID)
            /\ \A k \in 1..Len(txLog) : txLog[k].sid # chan[o]

\* o waits on a channel that never became Active while an operation on the
\* other channel has completed, also across a peer close
C9_Witness ==
    \E o, p \in Ops :
        /\ chan[o] # NoChan /\ ~everActive[chan[o]]
        /\ calls[p] = 1
        /\ nDisc >= 1 /\ connOpen
        /\ chState[chan[o]] = "Connecting"

\* C8: an operation with a callback that is never cancelled, on a channel
\* that becomes Active and stays so after finitely many peer closes, with a
\* peer that answers every GET_FIELD, eventually is Done with its callback
\* invoked exactly once.
C8_EventuallyDone ==
    \A o \in Ops :
        (state[o] = "Connecting" /\ done[o])
            ~> ((state[o] = "Done" /\ calls[o] = 1) \/ cancelled[o])

\* a reply is stale: its ioid is not registered, or the registered handle
\* has expired, or the registered operation is not Waiting
Stale(m) ==
    \/ m.ioid \notin DOMAIN opByIOID
    \/ Expired(opByIOID[m.ioid])
    \/ state[opByIOID[m.ioid]] # "Waiting"

\* C10: handling a well-formed stale GET_FIELD reply discards it: no
\* callback runs, no operation changes state, the connection stays open
\* (and the process goes on).
C10_StaleDiscarded ==
    [][(ReplyStep /\ Head(rx).good /\ Stale(Head(rx))) =>
          /\ calls' = calls
          /\ state' = state
          /\ connOpen'
          /\ crashed' = "none"
          /\ rx' = Tail(rx)]_vars

\* C11: handling a GET_FIELD reply that does not decode drops the
\* connection, invokes no callback, stores no result and completes no
\* operation; every operation that was Waiting on the connection is
\* Connecting again, once in the pending list of its channel, and every
\* other operation keeps its state.
C11_InvalidReplyDropsConnection ==
    [][(ReplyStep /\ ~Head(rx).good) =>
          /\ ~connOpen'
          /\ calls' = calls
          /\ delivered' = delivered
          /\ result' = result
          /\ crashed' = crashed
          /\ \A o \in Ops :
                IF state[o] = "Waiting"
                THEN /\ state'[o] = "Connecting"
                     /\ SeqCount(pending'[chan[o]], o) = 1
                ELSE state'[o] = state[o]]_vars

\* the connection went on an undecodable reply while o, which has a
\* callback, was Waiting: o is pending again and its callback did not run
C11_Witness ==
    \E o \in Ops :
        /\ lostBy = "invalid"
        /\ ~connOpen
        /\ state[o] = "Connecting" /\ ioid[o] # NoIoid
        /\ done[o] /\ calls[o] = 0
        /\ pending[chan[o]] = <<o>>

\* C12: the Result a callback is called with is a failure carrying
\* RemoteError with the message of the reply if and only if the status of
\* the reply is not success; for a success it holds an immutable value of
\* the type the reply described, no cell marked, and the peer's name.
C12_ResultMatchesStatus ==
    [][\A o \in Ops : calls'[o] > calls[o] =>
          /\ ReplyStep
          /\ (delivered'.kind = "error") <=> (Head(rx).sts # "ok")
          /\ Head(rx).sts # "ok" =>
                delivered' = [kind |-> "error", what |-> "RemoteError",
                              msg |-> Head(rx).body]
          /\ Head(rx).sts = "ok" =>
                /\ delivered'.kind = "value"
                /\ ~delivered'.value.mutable
                /\ delivered'.value.type = Head(rx).body
                /\ delivered'.value.marked = {}
                /\ delivered'.peer = PeerName]_vars

\* two callbacks have run; the later one, for an operation on the last
\* channel, was handed the RemoteError of that channel's PV
C12_Witness ==
    \E o, p \in Ops :
        /\ o # p
        /\ calls[o] = 1 /\ calls[p] = 1
        /\ delivered = ErrorResult(BodyOf(MaxChans))

\* C13: however the user callback ends, by returning or by throwing,
\* nothing leaves the reply handler: the operation is Done, its ioid is out
\* of opByIOID, the connection stays open, every other operation keeps its
\* state and registration, and handling goes on.
C13_CallbackThrowSuppressed ==
    [][\A o \in Ops : calls'[o] > calls[o] =>
          /\ state'[o] = "Done"
          /\ ioid[o] \notin DOMAIN opByIOID'
          /\ opByIOID' = Erase(opByIOID, ioid[o])
          /\ connOpen'
          /\ \A p \in Ops \ {o} : state'[p] = state[p] /\ done'[p] = done[p]
          /\ crashed' = "none"]_vars

\* C14: among the commands sent on one connection, a DESTROY_REQUEST for
\* an ioid comes only after a GET_FIELD with the same sid and ioid, and
\* between two DESTROY_REQUESTs for one ioid there is a GET_FIELD for it
\* (at most one DESTROY_REQUEST follows each GET_FIELD).
C14_CommandOrder ==
    \A k \in 1..Len(txLog) :
        txLog[k].cmd = "DESTROY_REQUEST" =>
            /\ \E j \in 1..(k - 1) :
                  txLog[j] = GetFieldMsg(txLog[k].sid, txLog[k].ioid)
            /\ \A j \in 1..(k - 1) :
                  (txLog[j].cmd = "DESTROY_REQUEST" /\ txLog[j].ioid = txLog[k].ioid)
                     => \E i \in (j + 1)..(k - 1) :
                           txLog[i].cmd = "GET_FIELD" /\ txLog[i].ioid = txLog[k].ioid

\* on the connection made after a peer close both operations were started
\* again and then cancelled: two GET_FIELDs, then their DESTROY_REQUESTs
C14_Witness ==
    /\ nDisc >= 1
    /\ Len(txLog) = 4
    /\ txLog[1].cmd = "GET_FIELD" /\ txLog[2].cmd = "GET_FIELD"
    /\ txLog[3].cmd = "DESTROY_REQUEST" /\ txLog[4].cmd = "DESTROY_REQUEST"
    /\ txLog[3].ioid # txLog[4].ioid

\* what only the executor may write: each operation's state, channel
\* reference and callback, the pending lists and the opByIOID maps
Confined == <<state, chan, done, pending, opByIOID, chanOps>>

\* user thread t enters a call, or returns from one, in this step
UserStep(t) == (userCall[t] = NoCall) # (userCall'[t] = NoCall)

\* C15: a step of a user thread writes none of the confined state; a call
\* returns only after its closure has run, with the closure's effect in
\* place (cancel: Done, no channel, no callback; exec: the operation
\* exists); a closure runs once, only as the one the executor has taken;
\* and while the executor is inside a closure nothing else writes the
\* confined state, so no two writers overlap.
C15_ExecutorConfinement ==
    [][/\ \A t \in Threads :
            /\ UserStep(t) => Confined' = Confined
            /\ (userCall[t] # NoCall /\ userCall'[t] = NoCall) =>
                  /\ userCall[t].stage = "ran"
                  /\ userCall[t].fn = "cancel" =>
                        /\ state[userCall[t].op] = "Done"
                        /\ chan[userCall[t].op] = NoChan
                        /\ ~done[userCall[t].op]
                  /\ userCall[t].fn = "exec" => state[userCall[t].op] # "None"
            /\ (userCall[t] # NoCall /\ userCall'[t] # NoCall
                   /\ userCall[t].stage # userCall'[t].stage) =>
                  /\ loopBusy = t /\ loopBusy' = 0
                  /\ userCall[t].stage = "posted"
       /\ (loopBusy # 0 /\ Confined' # Confined) =>
            /\ loopBusy' = 0
            /\ userCall[loopBusy].stage = "posted"
            /\ userCall'[loopBusy].stage = "ran"]_vars

\* both user threads are inside cancel() of the same operation, which has
\* a callback: the closure of one has run and the executor has taken the
\* closure of the other, while a reply for the operation waits
C15_Witness ==
    \E t, u \in Threads :
        /\ t # u
        /\ userCall[t] # NoCall /\ userCall[u] # NoCall
        /\ userCall[t].fn = "cancel" /\ userCall[u].fn = "cancel"
        /\ userCall[t].op = userCall[u].op
        /\ userCall[t].stage = "ran"
        /\ loopBusy = u
        /\ rx # <<>> /\ Head(rx).ioid = ioid[userCall[t].op]

(***************************************************************************)
(* Properties of the value model                                           *)
(***************************************************************************)
\* h is the only handle sharing its tree
SoleHandle(h, hs) ==
    /\ hs[h] = 1
    /\ \A g \in DOMAIN hs : g.tree = h.tree => g = h

\* C16: MValue::freeze() succeeds if and only if the handle is the only
\* handle sharing its tree.  On success the MValue no longer refers to the
\* tree and the returned IValue refers to the same cell of the same,
\* unchanged tree; on failure an error is raised and the handles and the
\* trees are as before.
C16_FreezeSoleOwner ==
    \A h \in MHandles :
        LET r == freeze(h, handles, trees)
            iv == Handle("I", h.tree, h.idx)
        IN /\ (r.raised = "none") <=> SoleHandle(h, handles)
           /\ r.raised = "none" =>
                /\ ~BagIn(h, r.handles)
                /\ BagIn(iv, r.handles)
                /\ r.handles (-) SetToBag({iv}) = handles (-) SetToBag({h})
                /\ r.trees = trees
           /\ r.raised # "none" =>
                /\ r.raised = "runtime_error"
                /\ r.handles = handles
                /\ r.trees = trees

\* a freeze() has succeeded (an IValue exists), and a freeze() of a shared
\* MValue has just been refused
C16_Witness ==
    /\ raised = "runtime_error"
    /\ IHandles # {}
    /\ \E h \in MHandles : ~SoleHandle(h, handles)

\* tree c holds, cell for cell, what the handle at cell k of tree t sees:
\* the same desc, and in every cell the same stored value and valid bit
SameCells(c, t, k) ==
    /\ c.top = t.top + k
    /\ \A i \in 0..(descAt(c.top).size - 1) :
        /\ c.valid[i] = t.valid[k + i]
        /\ c.val[i] = t.val[k + i]

\* C17: IValue::thaw() of a solely owned tree replaces the IValue by an
\* MValue on the same cell of the same tree and changes no tree.  On a shared
\* tree it adds an MValue at the top of a tree that did not exist before and
\* holds a copy of every cell the IValue sees, and leaves every tree that
\* existed and every handle unchanged.
C17_ThawSoleOrDeepCopy ==
    \A h \in IHandles :
        LET r == thaw(h, handles, trees)
            n == FreeTree(trees)
        IN IF SoleHandle(h, handles)
           THEN /\ r.handles = retarget(h, Handle("M", h.tree, h.idx), handles)
                /\ r.trees = trees
           ELSE HandleRoom /\ TreeRoom =>
                /\ r.handles = handles (+) SetToBag({Handle("M", n, 0)})
                /\ \A t \in TreeIds : Live(t, trees) => r.trees[t] = trees[t]
                /\ SameCells(r.trees[n], trees[h.tree], h.idx)

\* C18: for every MValue m the program can have built with writes, marks
\* and unmarks, m.clone().freeze().thaw() succeeds and is an MValue whose
\* tree has the desc of m and, in every cell, the stored value and the valid
\* bit of the cell of m.
C18_CloneFreezeThaw ==
    \A m \in MHandles :
        HandleRoom /\ TreeRoom =>
            LET n == FreeTree(trees)
                c == clone(m, handles, trees)
                f == freeze(Handle("M", n, 0), c.handles, c.trees)
                r == thaw(Handle("I", n, 0), f.handles, f.trees)
            IN /\ f.raised = "none"
               /\ r.raised = "none"
               /\ BagIn(Handle("M", n, 0), r.handles)
               /\ SameCells(r.trees[n], trees[m.tree], m.idx)

\* trees a and b differ at most in the valid bit of cell k
OnlyOwnBit(a, b, k) ==
    /\ b.top = a.top
    /\ b.val = a.val
    /\ \A i \in DOMAIN a.valid : i # k => b.valid[i] = a.valid[i]

\* C19: for every MValue m: after m.mark(); m.mark() isMarked() is true and
\* the second mark() changed nothing; one unmark() then makes isMarked()
\* false; and each of mark() and unmark(), called without options, changes
\* nothing but the valid bit of the cell m points at.
C19_MarkIdempotent ==
    \A m \in MHandles :
        LET t == trees[m.tree]
            t1 == mark(t, m.idx, DefaultMark)
            t2 == mark(t1, m.idx, DefaultMark)
            u == unmark(t2, m.idx, DefaultParents, DefaultChildren)
        IN /\ t2 = t1
           /\ isMarked(t2, m.idx, DefaultParents, DefaultChildren)
                = [value |-> TRUE, fault |-> FALSE]
           /\ ~u.fault
           /\ isMarked(u.tree, m.idx, DefaultParents, DefaultChildren)
                = [value |-> FALSE, fault |-> FALSE]
           /\ OnlyOwnBit(t, t1, m.idx)
           /\ OnlyOwnBit(t2, u.tree, m.idx)

\* an MValue on the inner Struct whose own bit is clear while its parent and
\* its child are marked
C19_Witness ==
    /\ raised = "none"
    /\ \E m \in MHandles :
        /\ trees[m.tree].top = 0
        /\ m.idx = 2
        /\ ~trees[m.tree].valid[2]
        /\ trees[m.tree].valid[0]
        /\ trees[m.tree].valid[3]

\* the cells of the Struct fields enclosing cell k of a tree
AncestorCells(tree, k) ==
    {j \in 0..(k - 1) :
        /\ descAt(tree.top + j).code = "Struct"
        /\ k < j + descAt(tree.top + j).size}

\* the cells of the subtree of cell k, k included
SubtreeCells(tree, k) == k..(k + descAt(tree.top + k).size - 1)

\* the cells unmark(parents, children) at cell k is to clear
ToClear(tree, k, parents, children) ==
    {k} \cup (IF children THEN SubtreeCells(tree, k) ELSE {})
        \cup (IF parents THEN AncestorCells(tree, k) ELSE {})

\* C20: for every MValue and every choice of options, unmark(parents,
\* children) stays inside the tree, changes no stored value, clears the valid
\* bit of the handle's own cell, of every cell of its subtree when children
\* is set and of every enclosing Struct up to the root when parents is set,
\* and leaves every other valid bit as it was.
C20_UnmarkClearsExactly ==
    \A m \in MHandles : \A parents \in BOOLEAN, children \in BOOLEAN :
        LET t == trees[m.tree]
            u == unmark(t, m.idx, parents, children)
        IN /\ ~u.fault
           /\ u.tree.top = t.top
           /\ u.tree.val = t.val
           /\ \A i \in DOMAIN t.valid :
                u.tree.valid[i] =
                    (t.valid[i] /\ i \notin ToClear(t, m.idx, parents, children))

\* C21: for every MValue h and every handle g of the same descriptor,
\* h.assign(g) is accepted; every scalar cell that is valid in the source is
\* afterwards valid in the target and holds the source's value; every target
\* cell whose source cell is not valid keeps its value and its valid bit.
C21_AssignCopiesValidLeaves ==
    \A h \in MHandles : \A g \in DOMAIN handles :
        DescOf(h, trees) = DescOf(g, trees) =>
            LET r == assignTo(h, g, handles, trees)
                d == trees[h.tree]
                o == trees[g.tree]
                e == r.trees[h.tree]
            IN /\ r.raised = "none"
               /\ \A i \in 0..(descAt(DescOf(h, trees)).size - 1) :
                    /\ (o.valid[g.idx + i] /\ StoreCode(DescOf(g, trees) + i) # "Null") =>
                          /\ e.valid[h.idx + i]
                          /\ e.val[h.idx + i] = o.val[g.idx + i]
                    /\ ~o.valid[g.idx + i] =>
                          /\ e.valid[h.idx + i] = d.valid[h.idx + i]
                          /\ e.val[h.idx + i] = d.val[h.idx + i]

\* the field at position d is a scalar leaf
LeafScalar(d) == KindOf(descAt(d).code) \in ScalarKinds

\* C22: for every MValue h and every handle g of a different descriptor,
\* h.assign(g) is accepted if and only if both are scalar leaves of the same
\* Kind, and every other pair is refused with an error and no change; when
\* accepted from a valid source the target cell holds the source's value.
C22_AssignAcrossDescriptors ==
    \A h \in MHandles : \A g \in DOMAIN handles :
        DescOf(h, trees) # DescOf(g, trees) =>
            LET r == assignTo(h, g, handles, trees)
                d == DescOf(h, trees)
                o == DescOf(g, trees)
            IN /\ (r.raised = "none") <=>
                    /\ LeafScalar(d) /\ LeafScalar(o)
                    /\ KindOf(descAt(d).code) = KindOf(descAt(o).code)
               /\ r.raised # "none" => r.raised = "runtime_error" /\ r.trees = trees
               /\ (r.raised = "none" /\ trees[g.tree].valid[g.idx]) =>
                    /\ r.trees[h.tree].valid[h.idx]
                    /\ r.trees[h.tree].val[h.idx] = trees[g.tree].val[g.idx]

\* ------------------------------------------------------------------
\* Properties of traversal
\* the characters of a field or member name among PathChars
NameChars == {"0", "y"}

\* where the run of characters of chars that starts at pos ends
RunEnd(expr, chars, pos) ==
    LET sep == findFirstOf(expr, PathChars \ chars, pos)
    IN IF sep = Npos THEN Len(expr) ELSE sep

\* The handle the path grammar gives for expr[pos..] from h: steps are a
\* field name (with dots) at a Struct, '<', "->" and a member name at a
\* Union, "->" at an Any, '[' index ']' at an array of compounds; NoHandle
\* for a syntax error, a missing or unselected member, an index out of
\* range, an ascent from the top, and a descent into a compound on a
\* mutable traversal.
RECURSIVE Resolve(_, _, _, _, _)
Resolve(h, expr, pos, modify, ts) ==
    IF h = NoHandle \/ pos >= Len(expr) THEN h
    ELSE LET d == DescOf(h, ts)
             code == descAt(d).code
         IN IF expr[pos + 1] = "<"
            THEN IF h.idx = 0 THEN NoHandle
                 ELSE Resolve(moved(h, 0 - descAt(d).parent_index), expr, pos + 1, modify, ts)
            ELSE IF code = "Struct"
            THEN LET e == RunEnd(expr, NameChars \cup {"."}, pos)
                     it == mfind(d, substr(expr, pos, e - pos))
                 IN IF e > pos /\ it # -1
                    THEN Resolve(moved(h, it), expr, e, modify, ts)
                    ELSE NoHandle
            ELSE IF modify THEN NoHandle
            ELSE IF code \in {"Union", "Any"}
            THEN IF substr(expr, pos, 2) # <<"-", ">">> THEN NoHandle
                 ELSE LET fld == held(h.kind, ts[h.tree].val[h.idx])
                          e == RunEnd(expr, NameChars, pos + 2)
                          it == mfind(d, substr(expr, pos + 2, e - pos - 2))
                      IN IF code = "Any" THEN Resolve(fld, expr, pos + 2, modify, ts)
                         ELSE IF e > pos + 2 /\ it # -1 /\ fld # NoHandle
                                 /\ DescOf(fld, ts) = membersAt(d) + it
                         THEN Resolve(fld, expr, e, modify, ts)
                         ELSE NoHandle
            ELSE IF code \in {"StructA", "UnionA", "AnyA"}
            THEN LET e == RunEnd(expr, {"0"}, pos + 1)
                     arr == ts[h.tree].val[h.idx].elems
                 IN IF expr[pos + 1] = "[" /\ e > pos + 1 /\ e < Len(expr)
                       /\ expr[e + 1] = "]" /\ 0 < Len(arr)
                    THEN Resolve(held(h.kind, arr[1]), expr, e + 1, modify, ts)
                    ELSE NoHandle
            ELSE NoHandle

\* h is the empty handle or a handle on a cell of a tree of ts
EmptyOrCell(h, ts) ==
    \/ h = NoHandle
    \/ /\ h.tree \in TreeIds
       /\ Live(h.tree, ts)
       /\ h.idx \in 0..(descAt(ts[h.tree].top).size - 1)

\* the scan of valueCall is over
Scanned == valueCall # NoCall /\ ~traverseMore(valueCall)

\* C23: traversal ends within one iteration per character of the path
\* without raising, with the empty handle or a handle on an existing cell,
\* and with the empty handle whenever the path has a syntax error, names a
\* missing member or indexes out of range.
C23_TraverseErrorsGiveEmpty ==
    valueCall # NoCall =>
        /\ raised = "none"
        /\ valueCall.n <= Len(valueCall.expr)
        /\ EmptyOrCell(valueCall.h, trees)
        /\ (Scanned /\ valueCall.h # NoHandle) =>
               Resolve(valueCall.from, valueCall.expr, 0, valueCall.modify, trees) # NoHandle

\* the characters scanned so far are field names and '<' only
StructSteps(c) ==
    \A i \in 1..Len(c.expr) : i <= c.pos => c.expr[i] \in NameChars \cup {".", "<"}

\* C24: no step of a traversal changes a stored value or a valid bit, makes
\* or frees a tree, or touches another handle; and while only Struct steps
\* (field names and '<') have been taken, a non-empty working handle points
\* into the StructTop the traversal started from.
C24_TraverseSharesTree ==
    [][(valueCall # NoCall \/ valueCall' # NoCall) =>
          /\ trees' = trees
          /\ handles' = handles
          /\ (valueCall' # NoCall /\ valueCall'.h # NoHandle /\ StructSteps(valueCall')) =>
                 valueCall'.h.tree = valueCall'.from.tree]_vars

\* a scan by field name that ended on another cell of the tree it started in
C24_Witness ==
    /\ Scanned
    /\ valueCall.h # NoHandle
    /\ StructSteps(valueCall)
    /\ valueCall.h.tree = valueCall.from.tree
    /\ valueCall.h.idx # valueCall.from.idx
    /\ \E i \in 1..Len(valueCall.expr) : valueCall.expr[i] = "y"

\* the cell the working handle of the scan is on is not a Struct
AtNonStruct(c, ts) == descAt(DescOf(c.h, ts)).code # "Struct"

\* C25 as stated: a mutable traversal never leaves the tree it started in
\* (it never enters what a Union, an Any or an array of compounds holds),
\* and whenever steps remain at a cell that is not a Struct it yields the
\* empty handle.
C25_MutableStopsAtNonStruct ==
    (valueCall # NoCall /\ valueCall.modify) =>
        /\ valueCall.h # NoHandle => valueCall.h.tree = valueCall.from.tree
        /\ (traverseMore(valueCall) /\ AtNonStruct(valueCall, trees)) =>
               traverseStep(valueCall, trees).h = NoHandle

\* C25 amended: a mutable traversal never leaves the tree it started in,
\* and whenever a step other than '<' remains at a cell that is not a
\* Struct it yields the empty handle.
C25_MutableStopsUnlessAscending ==
    (valueCall # NoCall /\ valueCall.modify) =>
        /\ valueCall.h # NoHandle => valueCall.h.tree = valueCall.from.tree
        /\ (traverseMore(valueCall) /\ AtNonStruct(valueCall, trees)
              /\ valueCall.expr[valueCall.pos + 1] # "<") =>
               traverseStep(valueCall, trees).h = NoHandle

\* a mutable traversal asked to select the selected member of a Union ended
\* with the empty handle after one iteration
C25_Witness ==
    /\ Scanned
    /\ valueCall.modify
    /\ valueCall.h = NoHandle
    /\ valueCall.n = 1
    /\ valueCall.from.idx = 1
    /\ valueCall.expr = <<"-", ">", "y">>
    /\ trees[1].top = Top.Union
    /\ trees[1].val[1] = 2

\* ------------------------------------------------------------------
\* Properties of copyOut and copyIn
\* what str denotes as a value of the scalar type (-1: nothing); a Bool as
\* 1 and 0
Denotes(str, type) ==
    CASE type = "Integer" -> epicsParseInt64(str)
      [] type = "UInteger" -> epicsParseUInt64(str)
      [] type = "Real" -> epicsParseDouble(str)
      [] type = "Bool" -> IF str = "true" THEN 1 ELSE IF str = "false" THEN 0 ELSE -1
      [] OTHER -> -1

\* the handles on a cell of the given StoreType
HandlesOn(code) == {h \in DOMAIN handles : StoreCode(DescOf(h, trees)) = code}

\* C26: copyOut() of a String cell as Integer, UInteger, Real or Bool
\* writes the value the string denotes as that type ("true" and "false" for
\* a Bool) as an object of that type, and raises NoConvert without writing
\* when the string denotes no such value.
C26_StringReadParses ==
    \A h \in HandlesOn("String"), type \in {"Integer", "UInteger", "Real", "Bool"} :
        LET want == Denotes(trees[h.tree].val[h.idx], type)
            r == copyOut(h, type, trees)
        IN IF want = -1
           THEN r.raised = "NoConvert" /\ r.out.type = "Null"
           ELSE /\ r.raised = "none"
                /\ r.out.type = type
                /\ IF type = "Bool" THEN r.out.v = (want = 1) ELSE r.out.v = want

\* this step is a call of copyIn() or tryCopyIn()
CopyInStep == valueCall = NoCall /\ valueCall' # NoCall /\ valueCall'.fn = "copyIn"

\* C27: a copyIn() that succeeds leaves the cell valid; one that fails
\* throws NoField or NoConvert and leaves every stored value and valid bit
\* as it was; tryCopyIn() returns false instead of throwing.
C27_CopyInMarksOrKeeps ==
    [][CopyInStep =>
          LET c == valueCall'
          IN /\ c.ok => /\ raised' = "none"
                        /\ trees'[c.h.tree].valid[c.h.idx]
             /\ ~c.ok => /\ trees' = trees
                         /\ raised' = IF c.try THEN "none"
                                       ELSE IF c.h = NoHandle THEN "NoField" ELSE "NoConvert"]_vars

\* an Integer cell that had been written before refused a source that does
\* not convert, and the exception reached the caller
C27_Witness ==
    /\ valueCall # NoCall
    /\ valueCall.fn = "copyIn"
    /\ ~valueCall.ok
    /\ raised = "NoConvert"
    /\ valueCall.h = Handle("M", 1, 1)
    /\ trees[1].top = Top.Plain
    /\ trees[1].valid[1]
    /\ trees[1].val[1] = 1

\* C28: for every pair (S, D) of scalar storage types and every value of S,
\* copyIn() of that value into a cell of type D is accepted exactly when
\* copyOut() of a cell of type S holding the value as D is accepted.
C28_CopyInMirrorsCopyOut ==
    \A h \in MHandles : StoreCode(DescOf(h, trees)) \in ScalarTypes =>
        \A S \in ScalarTypes : \A v \in Sources(S) :
            LET D == StoreCode(DescOf(h, trees))
                in == copyInCell(DescOf(h, trees), trees[h.tree].val[h.idx], Typed(S, v), trees)
                out == copyOutCell(S, v, D, trees)
            IN (in.raised = "none") <=> (out.raised = "none")

\* the array src may be written into the array cell of desc d, where
\* fits(e) says whether the element e of a Value array suits a StructA or
\* UnionA cell
ArrayAccepted(d, src, fits(_)) ==
    \/ src.otype = "Null"
    \/ src.elems = <<>>
    \/ src.otype # "Value" /\ sameCode(descAt(d).code, src.otype)
    \/ /\ src.otype = "Value"
       /\ descAt(d).code \in {"StructA", "UnionA"}
       /\ \A i \in 1..Len(src.elems) : fits(src.elems[i])
    \/ src.otype = "Value" /\ descAt(d).code = "AnyA"

\* copyIn() of every array into every array cell of the state is accepted
\* exactly when ArrayAccepted says so, clears the cell when the source is
\* untyped or empty, stores the source otherwise, and raises NoConvert when
\* it is not accepted
ArrayWrites(fits(_)) ==
    \A h \in MHandles : StoreCode(DescOf(h, trees)) = "Array" =>
        \A src \in ArraySources :
            LET d == DescOf(h, trees)
                r == copyInCell(d, trees[h.tree].val[h.idx], Typed("Array", src), trees)
            IN IF ArrayAccepted(d, src, fits)
               THEN /\ r.raised = "none"
                    /\ r.val = IF src.otype = "Null" \/ src.elems = <<>> THEN NullArray ELSE src
               ELSE r.raised = "NoConvert"

\* C29 as stated: a Value array suits a StructA or UnionA cell when the
\* descriptor of every element is members[0] of the cell's descriptor.
C29_ArrayWriteCases ==
    ArrayWrites(LAMBDA e : e # 0 /\ trees[e].top = membersAt(DescOf(Handle("M", 1, 1), trees)))

\* C29 amended: a Value array suits a StructA or UnionA cell when the
\* descriptor of every element that is not an empty Value is members[0].
C29_ArrayWriteNonEmptyElements ==
    ArrayWrites(LAMBDA e : e = 0 \/ trees[e].top = membersAt(DescOf(Handle("M", 1, 1), trees)))

\* a StructA cell took an array of two Values of its member type
C29_Witness ==
    /\ trees[1].top = Top.Array
    /\ trees[1].valid[1]
    /\ trees[1].val[1] = SharedArray("Value", <<2, 2>>)
    /\ trees[2].top = membersAt(Top.Array + 1)

\* ------------------------------------------------------------------
\* Properties of shared_array
\* this step is a call of freeze()
FreezeStep == valueCall = NoCall /\ valueCall' # NoCall /\ valueCall'.fn = "freeze"

\* C30: freeze() of an array that no other array shares its buffer with
\* returns a const array of the same element type over the same buffer,
\* with the same size and (void variant) the same type tag, and leaves the
\* source empty; freeze() of an array whose buffer is shared raises
\* logic_error and changes no array.
C30_FreezeUniqueOrRaise ==
    [][FreezeStep =>
          LET a == valueCall'.a
              b == valueCall'.b
          IN IF useCount(arrays, arrays[a].data) = 1 \/ arrays[a].data = 0
             THEN /\ raised' = "none"
                  /\ arrays'[b].const
                  /\ arrays'[b].data = arrays[a].data
                  /\ arrays'[b].size = arrays[a].size
                  /\ arrays'[b].elem = arrays[a].elem
                  /\ arrays'[b].type = arrays[a].type
                  /\ arrays'[a].data = 0 /\ arrays'[a].size = 0
                  /\ \A c \in 1..MaxArrays \ {a, b} : arrays'[c] = arrays[c]
             ELSE /\ raised' = "logic_error"
                  /\ arrays' = arrays]_vars

\* a void array of eight bytes tagged Int32 was frozen: the result owns the
\* buffer alone and the source is empty and untyped
C30_Witness ==
    /\ valueCall # NoCall
    /\ valueCall.fn = "freeze"
    /\ raised = "none"
    /\ arrays[valueCall.b] = Array(arrays[valueCall.b].data, 2 * SizeofInt32, "void", TRUE, "Int32")
    /\ arrays[valueCall.b].data # 0
    /\ useCount(arrays, arrays[valueCall.b].data) = 1
    /\ arrays[valueCall.a] = Array(0, 0, "void", FALSE, "Null")

\* this step is a call of at()
AtStep == valueCall = NoCall /\ valueCall' # NoCall /\ valueCall'.fn = "at"

\* C31: at(i) raises out_of_range for every i >= size(), also on an empty
\* array, and returns a reference to element i of the buffer otherwise.
C31_AtChecksIndex ==
    [][AtStep =>
          LET arr == arrays[valueCall'.a]
              i == valueCall'.i
          IN IF i >= arr.size
             THEN raised' = "out_of_range"
             ELSE raised' = "none" /\ valueCall'.ret = Ref(arr.data, i)]_vars

\* C32: castTo<void>() of every typed array of n elements has the tag of
\* the element type and n*sizeof(element) bytes over the same buffer, and
\* castTo<int32_t>() of that void array has n elements over the same
\* buffer; a copy, a move and a freeze of every void array have its tag.
C32_EraseAndRestore ==
    /\ \A a \in 1..MaxArrays : arrays[a].elem = "Int32" =>
          LET v == castToVoid(arrays[a])
              t == castToTyped(v)
          IN /\ v.elem = "void" /\ v.type = "Int32"
             /\ v.size = arrays[a].size * SizeofInt32
             /\ v.data = arrays[a].data
             /\ t = arrays[a]
    /\ \A a \in 1..MaxArrays : arrays[a].elem = "void" =>
          /\ copyArray(arrays[a]).type = arrays[a].type
          /\ moveArray(arrays[a]).to.type = arrays[a].type
          /\ \A b \in 1..MaxArrays : arrays[b] = NoArray =>
                LET r == freezeArray(arrays, a, b)
                IN r.raised = "none" => r.arrays[b].type = arrays[a].type

\* a frozen void array of eight bytes tagged Int32 and a typed array of two
\* elements cast back from it own one buffer
C32_Witness ==
    \E a, b \in 1..MaxArrays :
        /\ arrays[a] = Array(arrays[b].data, 2 * SizeofInt32, "void", TRUE, "Int32")
        /\ arrays[b] = Array(arrays[b].data, 2, "Int32", TRUE, "Null")
        /\ arrays[b].data # 0

\* this step is a call of castTo<void>()
CastStep == valueCall = NoCall /\ valueCall' # NoCall /\ valueCall'.fn = "castTo"

\* C33: after shared_array<void> v(arr.castTo<void>()) the source arr has
\* size 0 and v has count*sizeof(element) bytes.
C33_CastToVoidMoves ==
    [][CastStep =>
          /\ arrays'[valueCall'.a].size = 0
          /\ arrays'[valueCall'.b].size = arrays[valueCall'.a].size * SizeofInt32]_vars

\* this step is a call of fn on the subscription
MonitorStep(fn) == valueCall = NoCall /\ valueCall' # NoCall /\ valueCall'.fn = fn

\* C34: post() appends while the queue holds fewer than limitQueue updates
\* and otherwise merges the marked cells of the update into the last
\* entry; post() and tryPost() never make the queue longer than that
\* limit; and while post() alone has been called, n times, the queue holds
\* the smaller of n and limitQueue updates, which is what can be popped.
C34_PostSquashesWhenFull ==
    [][/\ MonitorStep("post") =>
            LET q == monitor.queue
            IN IF Len(q) < monitor.limitQueue
               THEN monitor'.queue = Append(q, valueCall'.val)
               ELSE /\ Len(monitor'.queue) = Len(q)
                    /\ \A i \in 1..(Len(q) - 1) : monitor'.queue[i] = q[i]
                    /\ \A c \in Cells :
                          monitor'.queue[Len(q)][c] =
                              IF valueCall'.val[c] # 0 THEN valueCall'.val[c]
                              ELSE q[Len(q)][c]
       /\ (Len(monitor'.queue) > Len(monitor.queue)
              /\ Len(monitor'.queue) > monitor.limitQueue)
            => MonitorStep("forcePost")
       /\ monitor'.onlyPost =>
            Len(monitor'.queue) = IF monitor'.posts < monitor'.limitQueue
                                  THEN monitor'.posts ELSE monitor'.limitQueue]_vars

\* post() has been called two times more than the queue has room, and the
\* last entry holds cells of two updates
C34_Witness ==
    /\ monitor.onlyPost
    /\ monitor.limitQueue = MaxLimit
    /\ monitor.posts = MaxLimit + 2
    /\ Len(monitor.queue) = MaxLimit
    /\ monitor.queue[MaxLimit] = [c \in Cells |-> IF c = 1 THEN MaxLimit + 1 ELSE MaxLimit + 2]
    /\ valueCall # NoCall /\ valueCall.fn = "post" /\ ~valueCall.ret

\* the callbacks this step invoked
Fired == IF valueCall = NoCall /\ valueCall' # NoCall THEN valueCall'.fired ELSE {}

\* C35: a step invokes onLowMark exactly when nFree()<=low holds after it
\* and did not hold before it, and onHighMark exactly when nFree()>high
\* holds after it and did not hold before it.
C35_WatermarksEdgeTriggered ==
    [][/\ "onLowMark" \in Fired <=>
            (nFree(monitor') <= monitor'.low /\ ~(nFree(monitor) <= monitor.low))
       /\ "onHighMark" \in Fired <=>
            (nFree(monitor') > monitor'.high /\ ~(nFree(monitor) > monitor.high))]_vars

\* a post() has filled the queue to the low level and invoked onLowMark,
\* with the high level's condition true before and false now
C35_Witness ==
    /\ valueCall # NoCall /\ valueCall.fn = "post"
    /\ valueCall.fired = {"onLowMark"}
    /\ monitor.low = 1 /\ monitor.high = 1
    /\ nFree(monitor) = 1
    /\ ~monitor.atHigh

\* this step is a pop() of the client
PopStep == valueCall = NoCall /\ valueCall' # NoCall /\ valueCall'.fn = "pop"

\* C36: the first pop() observes Connected; Connected is observed only
\* when the last of Connected and Disconnect observed was not Connected; a
\* data update and Disconnect are observed only when it was Connected;
\* the data updates observed since Connected are newer one after the
\* other, and while no post() found the server's queue full they are the
\* PV's value at the time of the connection and then every update posted,
\* one by one; and a server stopped or a PV closed queues Disconnect for a
\* connected subscription.
C36_EventOrder ==
    [][/\ PopStep =>
            LET ev == valueCall'.ev
                phase == subscription.phase
                last == subscription.last
                exact == ~subscription.squashed[subscription.seen]
            IN /\ phase = "none" => ev = ConnectedEvent
               /\ ev = ConnectedEvent => phase # "Connected"
               /\ ev = DisconnectEvent => phase = "Connected"
               /\ ev.kind = "data" =>
                     /\ phase = "Connected"
                     /\ newest(ev.val) > last
                     /\ (exact /\ last = 0) => ev.val = subscription.first[subscription.seen]
                     /\ (exact /\ last > 0) =>
                           /\ newest(ev.val) = last + 1
                           /\ \A c \in Cells : ev.val[c] \in {0, last + 1}
       /\ (subscription.conn /\ ~subscription'.conn) =>
            /\ subscription'.events = Append(subscription.events, DisconnectEvent)
            /\ (subscription.serv /\ ~subscription'.serv) \/ (subscription.pv /\ ~subscription'.pv)]_vars

\* pop() has thrown Disconnect after Connected, the PV's value and a
\* posted update were observed
C36_Witness ==
    /\ valueCall # NoCall /\ valueCall.fn = "pop" /\ valueCall.ev = DisconnectEvent
    /\ subscription.phase = "Disconnect"
    /\ subscription.conns = 1
    /\ subscription.serial = 2
    /\ subscription.seen = 1
    /\ ~subscription.squashed[1]
    /\ subscription.events = <<>>

\* C37: for every MValue h and every handle g of the same descriptor, and
\* every Struct cell of g that is valid, h.assign(g) leaves every cell of
\* that sub-structure valid in the target, every leaf of it holding the
\* source's value, and the first cell after the sub-structure, when it is a
\* valid leaf of the source, is copied and marked as well.
C37_AssignCopiesSubStructure ==
    \A h \in MHandles : \A g \in DOMAIN handles :
        DescOf(h, trees) = DescOf(g, trees) =>
            LET o == trees[g.tree]
                e == assignTo(h, g, handles, trees).trees[h.tree]
                size == descAt(DescOf(h, trees)).size
            IN \A i \in 0..(size - 1) :
                 (o.valid[g.idx + i] /\ StoreCode(DescOf(g, trees) + i) = "Null") =>
                     LET next == i + descAt(DescOf(g, trees) + i).size
                     IN /\ \A j \in i..(next - 1) :
                             /\ e.valid[h.idx + j]
                             /\ StoreCode(DescOf(g, trees) + j) # "Null" =>
                                   e.val[h.idx + j] = o.val[g.idx + j]
                        /\ (next < size /\ o.valid[g.idx + next]
                               /\ StoreCode(DescOf(g, trees) + next) # "Null") =>
                             /\ e.valid[h.idx + next]
                             /\ e.val[h.idx + next] = o.val[g.idx + next]

\* C38: for every handle and every choice of options, isMarked(parents,
\* children) stays inside the tree and is true exactly when the handle's own
\* cell is valid, or children is set and a cell of its subtree is valid, or
\* parents is set and an enclosing Struct up to the root is valid; and for
\* an MValue it is false after unmark() with the same options.
C38_IsMarkedExactly ==
    \A h \in DOMAIN handles : \A parents \in BOOLEAN, children \in BOOLEAN :
        LET t == trees[h.tree]
            r == isMarked(t, h.idx, parents, children)
        IN /\ ~r.fault
           /\ r.value <=>
                \/ t.valid[h.idx]
                \/ children /\ \E c \in SubtreeCells(t, h.idx) : t.valid[c]
                \/ parents /\ \E a \in AncestorCells(t, h.idx) : t.valid[a]
           /\ h.kind = "M" =>
                LET u == unmark(t, h.idx, parents, children)
                IN ~u.fault /\ ~isMarked(u.tree, h.idx, parents, children).value

\* the valid cells below cell k that are inside no valid cell below k
\* before them
OutermostValid(tree, k) ==
    {c \in SubtreeCells(tree, k) \ {k} :
        /\ tree.valid[c]
        /\ \A b \in (k + 1)..(c - 1) :
              tree.valid[b] => c \notin SubtreeCells(tree, b)}

\* C39: for every handle, the marked depth-first iteration ends within as
\* many steps as the handle has cells, yields cells in increasing order,
\* and the cells it yields are exactly the valid cells below the handle's
\* cell that lie inside no valid cell yielded before.
C39_MarkedIterationVisits ==
    \A h \in DOMAIN handles :
        LET t == trees[h.tree]
            seen == forEachMarked(t, h.idx)
        IN /\ Len(seen) < descAt(DescOf(h, trees)).size
           /\ \A i \in 1..(Len(seen) - 1) : seen[i] < seen[i + 1]
           /\ {seen[i] : i \in 1..Len(seen)} = OutermostValid(t, h.idx)

\* C40: no tree has an MValue and an IValue among its handles, and a step
\* that keeps the handles changes no tree that has an IValue among them.
C40_NoTreeMutableAndImmutable ==
    /\ [](\A h, g \in DOMAIN handles : h.tree = g.tree => h.kind = g.kind)
    /\ [][handles' = handles =>
            \A g \in DOMAIN handles :
                g.kind = "I" => trees'[g.tree] = trees[g.tree]]_vars

\* two IValues share one tree and an MValue, thawed from one of them, has
\* a tree of its own that has been written to
C40_Witness ==
    \E g \in DOMAIN handles, m \in DOMAIN handles :
        /\ g.kind = "I" /\ handles[g] = 2
        /\ m.kind = "M" /\ m.tree # g.tree
        /\ trees[m.tree].top = trees[g.tree].top
        /\ trees[m.tree].val # trees[g.tree].val

====
